---------------------------- MODULE Spec2Model ----------------------------
(***************************************************************************)
(* A model of the simplex noise engine of src/src/simplex_noise.c: the     *)
(* process-wide engine state (permutation table, generator state, recorded *)
(* configuration, cache, counters), the operations that rebuild and clear  *)
(* it, and the sampling kernels and composers built on it.                 *)
(*                                                                         *)
(* Machine words.  A uint32_t is a tuple of 4 bytes and a uint64_t a tuple *)
(* of 8 bytes, least significant byte first, so that the arithmetic of the *)
(* generators wraps exactly as the C types do.                             *)
(***************************************************************************)
EXTENDS Integers, Sequences, FiniteSets, TLC

\* the file-scope state of simplex_noise.c
VARIABLES perm, initialized, global_config, perf_stats, prng_state, noise_cache,
          cache_enabled, cache_hits, cache_misses, profiling_enabled,
          function_call_count

\* what the caller sees of the call in progress: the function called with
\* its arguments (call), the value it returned (ret) and the cells of the
\* caller's buffer it wrote, in the order written (written)
VARIABLES call, ret, written

\* the number of calls made so far that configure the engine, or that write
\* to an object or a file of the caller
VARIABLE calls

\* the caller's side of the configuration interface: the simplex_config_t
\* object it edits and saves (caller_config), the object it loads into
\* (loaded) and the files there are (files)
VARIABLES caller_config, loaded, files

\* for each file, the object it was last saved from (a history variable)
VARIABLE saved

\* a second thread that executes simplex_noise_init_advanced statement by
\* statement: where it is (pc), its locals i, j and temp, and the table
\* when it began (before) and the table the call builds (after), both kept
\* for the properties
VARIABLE rebuilding

config_vars == << caller_config, loaded, files, saved >>

engine_vars == << perm, initialized, global_config, perf_stats, prng_state, noise_cache,
                  cache_enabled, cache_hits, cache_misses, profiling_enabled,
                  function_call_count >>

vars == << engine_vars, call, ret, written, calls, config_vars, rebuilding >>

(***************************************************************************)
(* Word arithmetic (the C operators on uint32_t / uint64_t)                *)
(***************************************************************************)

\* a small non-negative int as a uint32_t
W32(n) == << n % 256, (n \div 256) % 256, (n \div 65536) % 256, (n \div 16777216) % 256 >>

\* the conversion uint32_t -> uint64_t (zero extension)
ToU64(a) == a \o << 0, 0, 0, 0 >>

\* the conversion uint64_t -> uint32_t (truncation)
ToU32(a) == SubSeq(a, 1, 4)

\* a word whose value fits an int, as that int (used for array subscripts)
RECURSIVE WordInt(_)
WordInt(a) == IF a = << >> THEN 0 ELSE Head(a) + 256 * WordInt(Tail(a))

\* a & b, bit by bit
RECURSIVE AndBits(_, _)
AndBits(a, b) == IF a = 0 \/ b = 0 THEN 0
                 ELSE (a % 2) * (b % 2) + 2 * AndBits(a \div 2, b \div 2)

\* a & b of two 4-bit values: AndNibble[a][b]
AndNibble == [a \in 0..15 |-> [b \in 0..15 |-> AndBits(a, b)]]

\* a & b, a ^ b and a | b of two bytes
AndB(a, b) == AndNibble[a % 16][b % 16] + 16 * AndNibble[a \div 16][b \div 16]

XorB(a, b) == a + b - 2 * AndB(a, b)

OrB(a, b) == a + b - AndB(a, b)

RECURSIVE AndFrom(_, _, _)
AndFrom(a, b, k) ==
    IF k > Len(a) THEN << >> ELSE << AndB(a[k], b[k]) >> \o AndFrom(a, b, k + 1)

RECURSIVE XorFrom(_, _, _)
XorFrom(a, b, k) ==
    IF k > Len(a) THEN << >> ELSE << XorB(a[k], b[k]) >> \o XorFrom(a, b, k + 1)

RECURSIVE OrFrom(_, _, _)
OrFrom(a, b, k) ==
    IF k > Len(a) THEN << >> ELSE << OrB(a[k], b[k]) >> \o OrFrom(a, b, k + 1)

AndW(a, b) == AndFrom(a, b, 1)

XorW(a, b) == XorFrom(a, b, 1)

OrW(a, b) == OrFrom(a, b, 1)

RECURSIVE AddCarry(_, _, _, _)
AddCarry(a, b, k, c) ==
    IF k > Len(a) THEN << >>
    ELSE LET s == a[k] + b[k] + c
         IN  << s % 256 >> \o AddCarry(a, b, k + 1, s \div 256)

\* a + b modulo 2^(8 * Len(a))
AddW(a, b) == AddCarry(a, b, 1, 0)

RECURSIVE Column(_, _, _, _)
Column(a, b, k, i) == IF i > k THEN 0 ELSE a[i] * b[k + 1 - i] + Column(a, b, k, i + 1)

RECURSIVE MulCarry(_, _, _, _)
MulCarry(a, b, k, c) ==
    IF k > Len(a) THEN << >>
    ELSE LET s == c + Column(a, b, k, 1)
         IN  << s % 256 >> \o MulCarry(a, b, k + 1, s \div 256)

\* a * b modulo 2^(8 * Len(a))
MulW(a, b) == MulCarry(a, b, 1, 0)

ByteAt(a, k) == IF k >= 1 /\ k <= Len(a) THEN a[k] ELSE 0

RECURSIVE ShrFrom(_, _, _, _)
ShrFrom(a, q, r, k) ==
    IF k > Len(a) THEN << >>
    ELSE << (ByteAt(a, k + q) \div (2^r)) + (ByteAt(a, k + q + 1) % (2^r)) * (2^(8 - r)) >>
         \o ShrFrom(a, q, r, k + 1)

RECURSIVE ShlFrom(_, _, _, _)
ShlFrom(a, q, r, k) ==
    IF k > Len(a) THEN << >>
    ELSE << ((ByteAt(a, k - q) * (2^r)) % 256) + (ByteAt(a, k - q - 1) \div (2^(8 - r))) >>
         \o ShlFrom(a, q, r, k + 1)

\* a >> n and a << n for 0 <= n < 8 * Len(a)
ShrW(a, n) == ShrFrom(a, n \div 8, n % 8, 1)

ShlW(a, n) == ShlFrom(a, n \div 8, n % 8, 1)

RECURSIVE ModFrom(_, _, _, _)
ModFrom(a, m, k, r) == IF k = 0 THEN r ELSE ModFrom(a, m, k - 1, (r * 256 + a[k]) % m)

\* a % m for a small positive int m
ModW(a, m) == ModFrom(a, m, Len(a), 0)

\* TLC evaluates the arguments of an operator on demand.  Evaluated(v) is
\* TRUE for every function, tuple or record v; testing it makes the
\* evaluation of v happen at that point, which keeps long loops shallow.
Evaluated(v) == DOMAIN v = DOMAIN v

(***************************************************************************)
(* The values the caller and the clock supply.                             *)
(***************************************************************************)

\* the selectors passed range over 0..MaxPrngType: the four algorithms,
\* SIMPLEX_PRG_CUSTOM and SIMPLEX_PRG_COUNT
MaxPrngType == 5

\* at most MaxCalls configuring calls are made in one run
MaxCalls == 2

\* the widths, heights and depths passed to the array fills are at most MaxDim
MaxDim == 2

\* the octave counts passed to the composers are at most MaxOctaves
MaxOctaves == 2

\* the nonzero seed the caller passes
SomeSeed == W32(12345)

\* what (uint32_t)time(NULL) may return
TimeValues == { W32(1762412400), W32(1762412401) }

\* the seeds a generator is started from: the caller's, the clock's, and
\* the seed 0 recorded in a zeroed global_config
SeedsUsed == { SomeSeed, W32(0) } \cup TimeValues

(***************************************************************************)
(* The generators.  prng_state is the record ps; every generator function  *)
(* takes the record and yields the record after the call (st) and, for the *)
(* _next functions, the value returned (out).                              *)
(***************************************************************************)

\* enum simplex_prng_type_t
SIMPLEX_PRG_LINEAR_CONGRUENTIAL == 0
SIMPLEX_PRG_MERSENNE_TWISTER == 1
SIMPLEX_PRG_XORSHIFT == 2
SIMPLEX_PRG_PCG == 3
SIMPLEX_PRG_CUSTOM == 4
SIMPLEX_PRG_COUNT == 5

\* the length of mersenne_state
MT_N == 624

\* The functions below are written as chains of operators, every value
\* that is used more than once being an operator's parameter.

\* lcg_state = lcg_state * 1103515245 + 12345; return lcg_state;   s is the new lcg_state
lcg_return(ps, s) == [st |-> [ps EXCEPT !.lcg_state = s], out |-> s]

lcg_next(ps) == lcg_return(ps, AddW(MulW(ps.lcg_state, W32(1103515245)), W32(12345)))

\* The words of mersenne_state[] are held as the int of the same 32 bits
\* (two's complement): Held is the int a word is held as, Word the word.
Held(a) == a[1] + 256 * a[2] + 65536 * a[3] + 16777216 * (IF a[4] >= 128 THEN a[4] - 256 ELSE a[4])

Word(n) == IF n >= 0 THEN W32(n) ELSE [W32((n + 2147483647) + 1) EXCEPT ![4] = @ + 128]

\* (1812433253 * (prev ^ (prev >> 30)) + i) & 0xFFFFFFFF
mersenne_fill_word(prev, i) ==
    AndW(AddW(MulW(W32(1812433253), XorW(prev, ShrW(prev, 30))), W32(i)),
         << 255, 255, 255, 255 >>)

\* one turn of the loop of mersenne_init: mersenne_state[i] from mersenne_state[i - 1]
mersenne_fill_step(mt, i) == [mt EXCEPT ![i] = Held(mersenne_fill_word(Word(mt[i - 1]), i))]

\* for (i = lo; i <= hi; i++): the range is halved, and the first half is
\* evaluated before the second starts, so that the evaluation nests to a
\* depth of log(hi - lo) and not of hi - lo
RECURSIVE mersenne_fill(_, _, _)
mersenne_fill(mt, lo, hi) ==
    IF lo > hi THEN mt
    ELSE IF lo = hi THEN mersenne_fill_step(mt, lo)
    ELSE LET mid == (lo + hi) \div 2
             first == mersenne_fill(mt, lo, mid)
         IN  IF Evaluated(first) THEN mersenne_fill(first, mid + 1, hi) ELSE first

\* mersenne_state after mersenne_init(seed): the loop writes every word and
\* reads only words it wrote, so the array is a function of the seed alone
mersenne_filled(seed) ==
    mersenne_fill([i \in 0..(MT_N - 1) |-> IF i = 0 THEN Held(seed) ELSE 0], 1, MT_N - 1)

\* mersenne_filled for the seeds used, evaluated once
MersenneFilled == [seed \in SeedsUsed |-> mersenne_filled(seed)]

\* mersenne_init, looking the array up in filled when it is there
mersenne_init_from(ps, seed, filled) ==
    [ps EXCEPT !.mersenne_state =
                   IF seed \in DOMAIN filled THEN filled[seed]
                   ELSE mersenne_fill([@ EXCEPT ![0] = Held(seed)], 1, MT_N - 1),
               !.mersenne_index = 0]

mersenne_init(ps, seed) == mersenne_init_from(ps, seed, MersenneFilled)

\* mersenne_state[i] = far ^ (y >> 1); if (y % 2) mersenne_state[i] ^= 0x9908B0DF;
mersenne_twisted(y, far) ==
    IF ModW(y, 2) # 0 THEN XorW(XorW(far, ShrW(y, 1)), << 223, 176, 8, 153 >>)
    ELSE XorW(far, ShrW(y, 1))

\* one turn of the loop of mersenne_generate (in place: later turns read
\* the words earlier turns wrote)
mersenne_twist_step(mt, i) ==
    [mt EXCEPT ![i] =
        Held(mersenne_twisted(AddW(AndW(Word(mt[i]), << 0, 0, 0, 128 >>),
                                   AndW(Word(mt[(i + 1) % MT_N]), << 255, 255, 255, 127 >>)),
                              Word(mt[(i + 397) % MT_N])))]

RECURSIVE mersenne_twist(_, _, _)
mersenne_twist(mt, lo, hi) ==
    IF lo > hi THEN mt
    ELSE IF lo = hi THEN mersenne_twist_step(mt, lo)
    ELSE LET mid == (lo + hi) \div 2
             first == mersenne_twist(mt, lo, mid)
         IN  IF Evaluated(first) THEN mersenne_twist(first, mid + 1, hi) ELSE first

mersenne_generate(ps) == [ps EXCEPT !.mersenne_state = mersenne_twist(@, 0, MT_N - 1)]

\* y ^= (y >> n);   and   y ^= (y << n) & mask;
XorShr(y, n) == XorW(y, ShrW(y, n))

XorShl(y, n) == XorW(y, ShlW(y, n))

XorShlAnd(y, n, mask) == XorW(y, AndW(ShlW(y, n), mask))

\* mersenne_next after the test of mersenne_index
mersenne_extract(ps) ==
    [st  |-> [ps EXCEPT !.mersenne_index = (@ + 1) % MT_N],
     out |-> XorShr(XorShlAnd(XorShlAnd(XorShr(Word(ps.mersenne_state[ps.mersenne_index]), 11),
                                        7, << 128, 86, 44, 157 >>),
                              15, << 0, 0, 198, 239 >>),
                    18)]

mersenne_next(ps) ==
    mersenne_extract(IF ps.mersenne_index = 0 THEN mersenne_generate(ps) ELSE ps)

xorshift_init(ps, seed) ==
    [ps EXCEPT !.xorshift_state[0] = seed,
               !.xorshift_state[1] = XorW(seed, << 240, 222, 188, 154, 120, 86, 52, 18 >>),
               !.xorshift_state[2] = XorW(seed, << 16, 50, 84, 118, 152, 186, 220, 254 >>),
               !.xorshift_state[3] = XorW(seed, << 224, 172, 104, 36, 223, 155, 87, 19 >>)]

\* xorshift_next from the new xorshift_state[3], r
xorshift_return(ps, r) ==
    [st |-> [ps EXCEPT !.xorshift_state[0] = ps.xorshift_state[1],
                       !.xorshift_state[1] = ps.xorshift_state[2],
                       !.xorshift_state[2] = ps.xorshift_state[3],
                       !.xorshift_state[3] = r],
     out |-> r]

\* t ^ s ^ (s >> 19)
xorshift_mix(t, s) == XorW(XorW(t, s), ShrW(s, 19))

xorshift_next(ps) ==
    xorshift_return(ps, xorshift_mix(XorShr(XorShl(ps.xorshift_state[0], 11), 8),
                                     ps.xorshift_state[3]))

\* (xorshifted >> rot) | (xorshifted << ((-rot) & 31))
pcg_rotate(xorshifted, rot) == OrW(ShrW(xorshifted, rot), ShlW(xorshifted, (32 - rot) % 32))

\* pcg_next from oldstate
pcg_output(oldstate) ==
    pcg_rotate(ToU32(ShrW(XorW(ShrW(oldstate, 18), oldstate), 27)),
               WordInt(ToU32(ShrW(oldstate, 59))))

pcg_next(ps) ==
    [st  |-> [ps EXCEPT !.pcg_state =
                            AddW(MulW(@, << 45, 127, 149, 76, 45, 244, 81, 88 >>), ps.pcg_inc)],
     out |-> pcg_output(ps.pcg_state)]

\* pcg_state += seed;
pcg_add(ps, seed) == [ps EXCEPT !.pcg_state = AddW(@, seed)]

\* pcg_init with the statement pcg_state = 0U left out
pcg_init_carrying(ps, seed) ==
    pcg_next(pcg_add(pcg_next([ps EXCEPT !.pcg_inc = OrW(ShlW(seed, 1), ToU64(W32(1)))]).st,
                     seed)).st

pcg_init(ps, seed) ==
    pcg_next(pcg_add(pcg_next([ps EXCEPT !.pcg_state = ToU64(W32(0)),
                                         !.pcg_inc = OrW(ShlW(seed, 1), ToU64(W32(1)))]).st,
                     seed)).st

\* (uint32_t)xorshift_next()
Narrowed(r) == [st |-> r.st, out |-> ToU32(r.out)]

\* prng_next with the default branch drawing from the PCG generator
prng_next_default_pcg(ps, prng_type) ==
    CASE prng_type = SIMPLEX_PRG_LINEAR_CONGRUENTIAL -> lcg_next(ps)
      [] prng_type = SIMPLEX_PRG_MERSENNE_TWISTER -> mersenne_next(ps)
      [] prng_type = SIMPLEX_PRG_XORSHIFT -> Narrowed(xorshift_next(ps))
      [] prng_type = SIMPLEX_PRG_PCG -> pcg_next(ps)
      [] OTHER -> pcg_next(ps)

\* prng_next: the generator is chosen by global_config.prng_type
prng_next(ps, prng_type) ==
    CASE prng_type = SIMPLEX_PRG_LINEAR_CONGRUENTIAL -> lcg_next(ps)
      [] prng_type = SIMPLEX_PRG_MERSENNE_TWISTER -> mersenne_next(ps)
      [] prng_type = SIMPLEX_PRG_XORSHIFT -> Narrowed(xorshift_next(ps))
      [] prng_type = SIMPLEX_PRG_PCG -> pcg_next(ps)
      [] OTHER -> lcg_next(ps)

\* prng_init(seed): seed is a uint32_t, widened for the 64-bit generators
prng_init(ps, prng_type, seed) ==
    CASE prng_type = SIMPLEX_PRG_LINEAR_CONGRUENTIAL -> [ps EXCEPT !.lcg_state = seed]
      [] prng_type = SIMPLEX_PRG_MERSENNE_TWISTER -> mersenne_init(ps, seed)
      [] prng_type = SIMPLEX_PRG_XORSHIFT -> xorshift_init(ps, ToU64(seed))
      [] prng_type = SIMPLEX_PRG_PCG -> pcg_init(ps, ToU64(seed))
      [] OTHER -> [ps EXCEPT !.lcg_state = seed]

\* prng_state of a freshly loaded program (static storage is zeroed)
ZeroPrng ==
    [lcg_state |-> W32(0),
     mersenne_state |-> [i \in 0..(MT_N - 1) |-> 0],
     mersenne_index |-> 0,
     xorshift_state |-> [i \in 0..3 |-> ToU64(W32(0))],
     pcg_state |-> ToU64(W32(0)),
     pcg_inc |-> ToU64(W32(0))]

(***************************************************************************)
(* The permutation table: lines 244..260 of simplex_noise_init_advanced    *)
(***************************************************************************)

\* perm[] of a freshly loaded program
ZeroPerm == [i \in 0..511 |-> 0]

\* the table with the identity written one too high: perm[i] = i + 1
FillIdentity_shifted(p, lo, hi) == [i \in DOMAIN p |-> IF lo <= i /\ i <= hi THEN i + 1 ELSE p[i]]

\* for (i = lo; i <= hi; i++) perm[i] = i;   halved as above
RECURSIVE FillIdentity(_, _, _)
FillIdentity(p, lo, hi) ==
    IF lo > hi THEN p
    ELSE IF lo = hi THEN [p EXCEPT ![lo] = lo]
    ELSE LET mid == (lo + hi) \div 2
             first == FillIdentity(p, lo, mid)
         IN  IF Evaluated(first) THEN FillIdentity(first, mid + 1, hi) ELSE first

\* the swap with the write of perm[j] left out: perm[i] = perm[j];
Swap_lost(p, i, j) == [p EXCEPT ![i] = p[j]]

\* int temp = perm[i]; perm[i] = perm[j]; perm[j] = temp;
Swap(p, i, j) == [p EXCEPT ![i] = p[j], ![j] = p[i]]

\* the shuffle turn i from the draw r: j = r.out % (i + 1), and the swap
ShuffleDraw(p, i, r) == [perm |-> Swap(p, i, ModW(r.out, i + 1)), st |-> r.st]

\* one turn of the shuffle loop: j = prng_next() % (i + 1); swap perm[i], perm[j].
\* s is the pair of the table (perm) and prng_state (st).
ShuffleStep(s, prng_type, i) == ShuffleDraw(s.perm, i, prng_next(s.st, prng_type))

\* for (i = hi; i >= lo; i--), halved as above
RECURSIVE Shuffle(_, _, _, _)
Shuffle(s, prng_type, hi, lo) ==
    IF hi < lo THEN s
    ELSE IF hi = lo THEN ShuffleStep(s, prng_type, hi)
    ELSE LET mid == (lo + hi) \div 2
             first == Shuffle(s, prng_type, hi, mid + 1)
         IN  IF Evaluated(first) THEN Shuffle(first, prng_type, mid, lo) ELSE first

\* for (i = lo; i <= hi; i++) perm[256 + i] = perm[i];   halved as above
RECURSIVE Duplicate(_, _, _)
Duplicate(p, lo, hi) ==
    IF lo > hi THEN p
    ELSE IF lo = hi THEN [p EXCEPT ![256 + lo] = p[lo]]
    ELSE LET mid == (lo + hi) \div 2
             first == Duplicate(p, lo, mid)
         IN  IF Evaluated(first) THEN Duplicate(first, mid + 1, hi) ELSE first

\* the duplication, of the table of the pair s
Duplicated(s) == [perm |-> Duplicate(s.perm, 0, 255), st |-> s.st]

\* lines 244..260 from the prng_state st0 that prng_init left: identity,
\* shuffle, duplicate
BuildFrom(p, st0, prng_type) ==
    Duplicated(Shuffle([perm |-> FillIdentity(p, 0, 255), st |-> st0], prng_type, 255, 1))

\* the whole rebuild of lines 242..260: prng_init, identity, shuffle, duplicate
BuildPerm(p, ps, prng_type, seed) == BuildFrom(p, prng_init(ps, prng_type, seed), prng_type)

\* the fields of prng_state that prng_next reads and writes under prng_type
Generator(ps, prng_type) ==
    CASE prng_type = SIMPLEX_PRG_MERSENNE_TWISTER -> << ps.mersenne_state, ps.mersenne_index >>
      [] prng_type = SIMPLEX_PRG_XORSHIFT -> << ps.xorshift_state >>
      [] prng_type = SIMPLEX_PRG_PCG -> << ps.pcg_state, ps.pcg_inc >>
      [] OTHER -> << ps.lcg_state >>

\* ps with those fields set to g
WithGenerator(ps, prng_type, g) ==
    CASE prng_type = SIMPLEX_PRG_MERSENNE_TWISTER ->
            [ps EXCEPT !.mersenne_state = g[1], !.mersenne_index = g[2]]
      [] prng_type = SIMPLEX_PRG_XORSHIFT -> [ps EXCEPT !.xorshift_state = g[1]]
      [] prng_type = SIMPLEX_PRG_PCG -> [ps EXCEPT !.pcg_state = g[1], !.pcg_inc = g[2]]
      [] OTHER -> [ps EXCEPT !.lcg_state = g[1]]

\* a rebuild b that started from the generator fields g, as an entry of the
\* table below: the fields it started from, the table built, and the
\* fields it ended with
Built(prng_type, g, b) == [from |-> g, perm |-> b.perm, to |-> Generator(b.st, prng_type)]

\* the rebuild from st0 in a freshly loaded program
FreshFrom(prng_type, st0) ==
    Built(prng_type, Generator(st0, prng_type), BuildFrom(ZeroPerm, st0, prng_type))

\* the rebuilds the runs make, in a freshly loaded program, evaluated once
FreshBuilds ==
    [k \in ({ << t, SomeSeed >> : t \in 0..MaxPrngType }
            \cup { << SIMPLEX_PRG_PCG, now >> : now \in TimeValues }) |->
        FreshFrom(k[1], prng_init(ZeroPrng, k[1], k[2]))]

\* the rebuild from st0 that the entry f of the table gives
Looked(f, st0, prng_type) ==
    [perm |-> f.perm, st |-> WithGenerator(st0, prng_type, f.to)]

\* BuildFrom, evaluated by looking the rebuild up in built when the shuffle
\* starts from generator fields it was evaluated for: the identity fill, the
\* shuffle and the duplication write all of perm[] and read, besides
\* perm[], only those fields, so the table and the fields are the same ones
RebuildFrom(p, st0, prng_type, k, built) ==
    IF k \in DOMAIN built /\ Generator(st0, prng_type) = built[k].from
    THEN Looked(built[k], st0, prng_type)
    ELSE BuildFrom(p, st0, prng_type)

\* BuildPerm, evaluated so
Rebuild(p, ps, prng_type, seed) ==
    RebuildFrom(p, prng_init(ps, prng_type, seed), prng_type, << prng_type, seed >>,
                FreshBuilds)

(***************************************************************************)
(* Doubles.  A double is modelled by a fixed-point number: the integer n   *)
(* stands for n / ONE.  Sums and differences are exact, a product is       *)
(* rounded to the nearest multiple of 1 / ONE (ties away from zero), and   *)
(* fabs, the comparisons and the conversions from int are exact.           *)
(***************************************************************************)

ONE == 4096

\* the int n as a double
D(n) == n * ONE

\* n / d rounded to the nearest, ties away from zero (d > 0)
RoundHalfUp(n, d) == IF 2 * (n % d) >= d THEN n \div d + 1 ELSE n \div d

RoundDiv(n, d) == IF n >= 0 THEN RoundHalfUp(n, d) ELSE -RoundHalfUp(-n, d)

\* a * b and a / b on doubles
FMul(a, b) == RoundDiv(a * b, ONE)

\* 0.0 / 0.0 is a NaN; no other division by zero occurs in the code modelled
NaN == "NaN"

FDiv(a, b) == IF b = 0 /\ a = 0 THEN NaN ELSE RoundDiv(a * ONE, b)

fabs(a) == IF a < 0 THEN -a ELSE a

\* (int)x: the conversion double -> int truncates towards zero
ToInt(x) == IF x >= 0 THEN x \div ONE ELSE -((-x) \div ONE)

\* sqrt(n) of a small int n, to the resolution of the model
Sqrt(n) == CHOOSE r \in 0..(3 * ONE) : r * r <= n * ONE * ONE /\ (r + 1) * (r + 1) > n * ONE * ONE

(***************************************************************************)
(* The kernels: simplex_noise_1d .. simplex_noise_4d after the lazy-init   *)
(* test, as functions of the permutation table p and the coordinates       *)
(***************************************************************************)

grad2 == << <<1, 1>>, <<-1, 1>>, <<1, -1>>, <<-1, -1>>,
            <<1, 0>>, <<-1, 0>>, <<0, 1>>, <<0, -1>> >>

grad3 == << <<1, 1, 0>>, <<-1, 1, 0>>, <<1, -1, 0>>, <<-1, -1, 0>>,
            <<1, 0, 1>>, <<-1, 0, 1>>, <<1, 0, -1>>, <<-1, 0, -1>>,
            <<0, 1, 1>>, <<0, -1, 1>>, <<0, 1, -1>>, <<0, -1, -1>> >>

grad4 == << <<0, 1, 1, 1>>, <<0, 1, 1, -1>>, <<0, 1, -1, 1>>, <<0, 1, -1, -1>>,
            <<0, -1, 1, 1>>, <<0, -1, 1, -1>>, <<0, -1, -1, 1>>, <<0, -1, -1, -1>>,
            <<1, 0, 1, 1>>, <<1, 0, 1, -1>>, <<1, 0, -1, 1>>, <<1, 0, -1, -1>>,
            <<-1, 0, 1, 1>>, <<-1, 0, 1, -1>>, <<-1, 0, -1, 1>>, <<-1, 0, -1, -1>>,
            <<1, 1, 0, 1>>, <<1, 1, 0, -1>>, <<1, -1, 0, 1>>, <<1, -1, 0, -1>>,
            <<-1, 1, 0, 1>>, <<-1, 1, 0, -1>>, <<-1, -1, 0, 1>>, <<-1, -1, 0, -1>>,
            <<1, 1, 1, 0>>, <<1, 1, -1, 0>>, <<1, -1, 1, 0>>, <<1, -1, -1, 0>>,
            <<-1, 1, 1, 0>>, <<-1, 1, -1, 0>>, <<-1, -1, 1, 0>>, <<-1, -1, -1, 0>> >>

\* grad[gi] of a C table: the subscript is 0-based
At(table, gi) == table[gi + 1]

dot2d(g, x, y) == g[1] * x + g[2] * y

dot3d(g, x, y, z) == g[1] * x + g[2] * y + g[3] * z

dot4d(g, x, y, z, w) == g[1] * x + g[2] * y + g[3] * z + g[4] * w

fast_floor(x) == IF x > 0 THEN ToInt(x) ELSE ToInt(x) - 1

\* i % 256 of C in place of i & 0xff: negative for a negative i
Low8_remainder(i) == IF i >= 0 \/ i % 256 = 0 THEN i % 256 ELSE (i % 256) - 256

\* i & 0xff of an int i (two's complement)
Low8(i) == i % 256

\* The kernels are written as chains of operators: the values a kernel
\* computes and uses more than once are the parameters of the next operator
\* of its chain, named by the variables of the C function.

\* n = t * t * d for the squared t
Scaled(t, d) == FMul(FMul(t, t), d)

\* one corner of a kernel: t is radius^2 - |offset|^2 and d the gradient's dot product;
\* if (t >= 0) { t *= t; n = t * t * d; } else n = 0.0
Corner(t, d) == IF t >= 0 THEN Scaled(FMul(t, t), d) ELSE 0

\* t *= t; n = t * t * dot2d(grad2[perm[i & 0xff] & 7], x, 0);   of simplex_noise_1d
Corner1d(p, i, x) ==
    Scaled(FMul(D(1) - FMul(x, x), D(1) - FMul(x, x)),
           dot2d(At(grad2, AndB(p[Low8(i)], 7)), x, 0))

Kernel1dOffsets(p, i0, x0) == 70 * (Corner1d(p, i0, x0) + Corner1d(p, i0 + 1, x0 - D(1)))

Kernel1dCell(p, x, i0) == Kernel1dOffsets(p, i0, x - D(i0))

Kernel1d(p, x) == Kernel1dCell(p, x, fast_floor(x))

F2 == (Sqrt(3) - D(1)) \div 2

G2 == (D(3) - Sqrt(3)) \div 6

\* t = 0.5 - x * x - y * y and the corner of it
Corner2d(gi, x, y) ==
    Corner(D(1) \div 2 - FMul(x, x) - FMul(y, y), dot2d(At(grad2, gi), x, y))

Kernel2dCorners(p, ii, jj, x0, y0, i1, j1) ==
    70 * (Corner2d(p[ii + p[jj]] % 8, x0, y0)
          + Corner2d(p[ii + i1 + p[jj + j1]] % 8, x0 - D(i1) + G2, y0 - D(j1) + G2)
          + Corner2d(p[ii + 1 + p[jj + 1]] % 8, x0 - D(1) + 2 * G2, y0 - D(1) + 2 * G2))

\* the corner ordering of simplex_noise_2d: << i1, j1 >>
Order2d(x0, y0) == IF x0 > y0 THEN << 1, 0 >> ELSE << 0, 1 >>

Kernel2dOrdered(p, ii, jj, x0, y0, o) == Kernel2dCorners(p, ii, jj, x0, y0, o[1], o[2])

Kernel2dOffsets(p, i, j, x0, y0) ==
    Kernel2dOrdered(p, Low8(i), Low8(j), x0, y0, Order2d(x0, y0))

Kernel2dUnskew(p, x, y, i, j, t) == Kernel2dOffsets(p, i, j, x - (D(i) - t), y - (D(j) - t))

Kernel2dCell(p, x, y, i, j) == Kernel2dUnskew(p, x, y, i, j, (i + j) * G2)

Kernel2dSkew(p, x, y, s) == Kernel2dCell(p, x, y, fast_floor(x + s), fast_floor(y + s))

Kernel2d(p, x, y) == Kernel2dSkew(p, x, y, FMul(x + y, F2))

F3 == FDiv(D(1), D(3))

G3 == FDiv(D(1), D(6))

\* the ordering with the third branch taking the steps of the fourth
Order3d_fourth(x0, y0, z0) ==
    IF x0 >= y0
    THEN IF y0 >= z0 THEN << 1, 0, 0, 1, 1, 0 >>
         ELSE IF x0 >= z0 THEN << 1, 0, 0, 1, 0, 1 >>
         ELSE << 0, 0, 1, 0, 1, 1 >>
    ELSE IF y0 < z0 THEN << 0, 0, 1, 0, 1, 1 >>
         ELSE IF x0 < z0 THEN << 0, 1, 0, 0, 1, 1 >>
         ELSE << 0, 1, 0, 1, 1, 0 >>

\* the corner ordering of simplex_noise_3d: << i1, j1, k1, i2, j2, k2 >>
Order3d(x0, y0, z0) ==
    IF x0 >= y0
    THEN IF y0 >= z0 THEN << 1, 0, 0, 1, 1, 0 >>
         ELSE IF x0 >= z0 THEN << 1, 0, 0, 1, 0, 1 >>
         ELSE << 0, 0, 1, 1, 0, 1 >>
    ELSE IF y0 < z0 THEN << 0, 0, 1, 0, 1, 1 >>
         ELSE IF x0 < z0 THEN << 0, 1, 0, 0, 1, 1 >>
         ELSE << 0, 1, 0, 1, 1, 0 >>

\* t = 0.6 - x * x - y * y - z * z and the corner of it
Corner3d(gi, x, y, z) ==
    Corner(FDiv(D(6), D(10)) - FMul(x, x) - FMul(y, y) - FMul(z, z),
           dot3d(At(grad3, gi), x, y, z))

\* o is << i1, j1, k1, i2, j2, k2 >>
Kernel3dCorners(p, ii, jj, kk, x0, y0, z0, o) ==
    32 * (Corner3d(p[ii + p[jj + p[kk]]] % 12, x0, y0, z0)
          + Corner3d(p[ii + o[1] + p[jj + o[2] + p[kk + o[3]]]] % 12,
                     x0 - D(o[1]) + G3, y0 - D(o[2]) + G3, z0 - D(o[3]) + G3)
          + Corner3d(p[ii + o[4] + p[jj + o[5] + p[kk + o[6]]]] % 12,
                     x0 - D(o[4]) + 2 * G3, y0 - D(o[5]) + 2 * G3, z0 - D(o[6]) + 2 * G3)
          + Corner3d(p[ii + 1 + p[jj + 1 + p[kk + 1]]] % 12,
                     x0 - D(1) + 3 * G3, y0 - D(1) + 3 * G3, z0 - D(1) + 3 * G3))

Kernel3dOffsets(p, i, j, k, x0, y0, z0) ==
    Kernel3dCorners(p, Low8(i), Low8(j), Low8(k), x0, y0, z0, Order3d(x0, y0, z0))

Kernel3dUnskew(p, x, y, z, i, j, k, t) ==
    Kernel3dOffsets(p, i, j, k, x - (D(i) - t), y - (D(j) - t), z - (D(k) - t))

Kernel3dCell(p, x, y, z, i, j, k) == Kernel3dUnskew(p, x, y, z, i, j, k, (i + j + k) * G3)

Kernel3dSkew(p, x, y, z, s) ==
    Kernel3dCell(p, x, y, z, fast_floor(x + s), fast_floor(y + s), fast_floor(z + s))

Kernel3d(p, x, y, z) == Kernel3dSkew(p, x, y, z, FMul(x + y + z, F3))

F4 == (Sqrt(5) - D(1)) \div 4

G4 == (D(5) - Sqrt(5)) \div 20

\* static const int simplex[64][4]
simplex == << <<0, 1, 2, 3>>, <<0, 1, 3, 2>>, <<0, 0, 1, 1>>, <<0, 2, 3, 1>>, <<0, 0, 1, 1>>, <<0, 0, 1, 1>>,
              <<0, 0, 1, 1>>, <<1, 2, 3, 0>>, <<0, 2, 1, 3>>, <<0, 0, 1, 1>>, <<0, 0, 1, 1>>, <<0, 0, 1, 1>>,
              <<1, 3, 0, 2>>, <<0, 0, 1, 1>>, <<0, 0, 1, 1>>, <<0, 0, 1, 1>>, <<0, 0, 1, 1>>, <<0, 0, 1, 1>>,
              <<0, 0, 1, 1>>, <<0, 0, 1, 1>>, <<0, 0, 1, 1>>, <<0, 0, 1, 1>>, <<0, 0, 1, 1>>, <<0, 0, 1, 1>>,
              <<1, 2, 0, 3>>, <<0, 0, 1, 1>>, <<0, 0, 1, 1>>, <<0, 0, 1, 1>>, <<1, 3, 2, 0>>, <<0, 0, 1, 1>>,
              <<0, 0, 1, 1>>, <<0, 0, 1, 1>>, <<0, 0, 1, 1>>, <<0, 0, 1, 1>>, <<0, 0, 1, 1>>, <<0, 0, 1, 1>>,
              <<0, 0, 1, 1>>, <<0, 0, 1, 1>>, <<0, 0, 1, 1>>, <<0, 0, 1, 1>>, <<2, 3, 0, 1>>, <<0, 0, 1, 1>>,
              <<0, 0, 1, 1>>, <<0, 0, 1, 1>>, <<2, 3, 1, 0>>, <<0, 0, 1, 1>>, <<0, 0, 1, 1>>, <<0, 0, 1, 1>>,
              <<0, 0, 1, 1>>, <<0, 0, 1, 1>>, <<0, 0, 1, 1>>, <<0, 0, 1, 1>>, <<0, 0, 1, 1>>, <<0, 0, 1, 1>>,
              <<0, 0, 1, 1>>, <<0, 0, 1, 1>>, <<2, 0, 3, 1>>, <<0, 0, 1, 1>>, <<0, 0, 1, 1>>, <<0, 0, 1, 1>>,
              <<3, 0, 1, 2>>, <<3, 1, 0, 2>>, <<0, 0, 1, 1>>, <<0, 0, 1, 1>> >>

\* simplex[c][axis] >= n ? 1 : 0   for the row simplex[c]
Step4d(row, axis, n) == IF row[axis] >= n THEN 1 ELSE 0

\* the comparison code c of simplex_noise_4d
Code4d(x0, y0, z0, w0) ==
    (IF x0 > y0 THEN 32 ELSE 0) + (IF x0 > z0 THEN 16 ELSE 0) + (IF y0 > z0 THEN 8 ELSE 0)
    + (IF x0 > w0 THEN 4 ELSE 0) + (IF y0 > w0 THEN 2 ELSE 0) + (IF z0 > w0 THEN 1 ELSE 0)

\* t = 0.6 - x * x - y * y - z * z - w * w and the corner of it
Corner4d(gi, x, y, z, w) ==
    Corner(FDiv(D(6), D(10)) - FMul(x, x) - FMul(y, y) - FMul(z, z) - FMul(w, w),
           dot4d(At(grad4, gi), x, y, z, w))

\* the corner n = 1..3 of simplex_noise_4d, whose steps are << in, jn, kn, ln >> = o
Corner4dStepped(p, ii, jj, kk, ll, x0, y0, z0, w0, o, n) ==
    Corner4d(p[ii + o[1] + p[jj + o[2] + p[kk + o[3] + p[ll + o[4]]]]] % 32,
             x0 - D(o[1]) + n * G4, y0 - D(o[2]) + n * G4,
             z0 - D(o[3]) + n * G4, w0 - D(o[4]) + n * G4)

\* << in, jn, kn, ln >> from the row simplex[c]: the steps of the ranks of at least r
Steps4d(row, r) ==
    << Step4d(row, 1, r), Step4d(row, 2, r), Step4d(row, 3, r), Step4d(row, 4, r) >>

\* the corner ordering of simplex_noise_4d from the row simplex[c]:
\* << << i1, j1, k1, l1 >>, << i2, j2, k2, l2 >>, << i3, j3, k3, l3 >> >>
Order4d(row) == << Steps4d(row, 3), Steps4d(row, 2), Steps4d(row, 1) >>

Kernel4dCorners(p, ii, jj, kk, ll, x0, y0, z0, w0, row) ==
    27 * (Corner4d(p[ii + p[jj + p[kk + p[ll]]]] % 32, x0, y0, z0, w0)
          + Corner4dStepped(p, ii, jj, kk, ll, x0, y0, z0, w0, Order4d(row)[1], 1)
          + Corner4dStepped(p, ii, jj, kk, ll, x0, y0, z0, w0, Order4d(row)[2], 2)
          + Corner4dStepped(p, ii, jj, kk, ll, x0, y0, z0, w0, Order4d(row)[3], 3)
          + Corner4d(p[ii + 1 + p[jj + 1 + p[kk + 1 + p[ll + 1]]]] % 32,
                     x0 - D(1) + 4 * G4, y0 - D(1) + 4 * G4,
                     z0 - D(1) + 4 * G4, w0 - D(1) + 4 * G4))

Kernel4dOffsets(p, i, j, k, l, x0, y0, z0, w0) ==
    Kernel4dCorners(p, Low8(i), Low8(j), Low8(k), Low8(l), x0, y0, z0, w0,
                    At(simplex, Code4d(x0, y0, z0, w0)))

Kernel4dUnskew(p, x, y, z, w, i, j, k, l, t) ==
    Kernel4dOffsets(p, i, j, k, l,
                    x - (D(i) - t), y - (D(j) - t), z - (D(k) - t), w - (D(l) - t))

Kernel4dCell(p, x, y, z, w, i, j, k, l) ==
    Kernel4dUnskew(p, x, y, z, w, i, j, k, l, (i + j + k + l) * G4)

Kernel4dSkew(p, x, y, z, w, s) ==
    Kernel4dCell(p, x, y, z, w, fast_floor(x + s), fast_floor(y + s), fast_floor(z + s),
                 fast_floor(w + s))

Kernel4d(p, x, y, z, w) == Kernel4dSkew(p, x, y, z, w, FMul(x + y + z + w, F4))

(***************************************************************************)
(* The engine: the file-scope state of simplex_noise.c, as one record e    *)
(* for the functions below and as one variable per object in the state     *)
(* machine.  global_config keeps the fields the engine reads.              *)
(***************************************************************************)

\* #define CACHE_SIZE 1024
CACHE_SIZE == 1024

\* a slot of noise_cache in zeroed static storage
\* noise_cache[CACHE_SIZE] is held as the set of the subscripts i with
\* noise_cache[i].valid = 1 (valid) and the coordinates and result of the
\* slots stored to (slot); a slot never stored to holds the zeros it is
\* loaded with
ZeroCache == [valid |-> { }, slot |-> << >>]

ZeroStats == [memory_used |-> 0, cache_hits |-> 0, cache_misses |-> 0, function_calls |-> 0]

\* the engine of a freshly loaded program
ZeroEngine ==
    [perm |-> ZeroPerm,
     initialized |-> 0,
     global_config |-> [prng_type |-> 0, seed |-> W32(0),
                        enable_caching |-> 0, enable_profiling |-> 0],
     perf_stats |-> ZeroStats,
     prng_state |-> ZeroPrng,
     noise_cache |-> ZeroCache,
     cache_enabled |-> 0,
     cache_hits |-> 0,
     cache_misses |-> 0,
     profiling_enabled |-> 0,
     function_call_count |-> 0]

\* simplex_get_default_config: the fields the engine reads
simplex_get_default_config ==
    [prng_type |-> SIMPLEX_PRG_PCG, seed |-> W32(0), enable_caching |-> 1, enable_profiling |-> 0]

\* the null pointer, and the pointer to an object v
NULL == << >>

Ref(v) == << v >>

\* for (i = 0; i < CACHE_SIZE; i++) noise_cache[i].valid = 0;
ClearCache(cache) == [cache EXCEPT !.valid = @ \ (0..(CACHE_SIZE - 1))]

\* global_config = *config; if (global_config.seed == 0) global_config.seed = time(NULL);
Seeded(config, now) == [config EXCEPT !.seed = IF @ = W32(0) THEN now ELSE @]

\* the initialisation counted as a call: function_call_count++ in place of
\* function_call_count = 0
Installed_counting(e, cfg, b) ==
    [e EXCEPT !.global_config = cfg,
              !.prng_state = b.st,
              !.perm = b.perm,
              !.perf_stats = ZeroStats,
              !.function_call_count = @ + 1,
              !.cache_enabled = IF cfg.enable_caching # 0 THEN 1 ELSE @,
              !.noise_cache = IF cfg.enable_caching # 0 THEN ClearCache(@) ELSE @,
              !.profiling_enabled = cfg.enable_profiling,
              !.initialized = 1]

\* simplex_noise_init_advanced from line 260, the rebuild b done
Installed(e, cfg, b) ==
    [e EXCEPT !.global_config = cfg,
              !.prng_state = b.st,
              !.perm = b.perm,
              !.perf_stats = ZeroStats,
              !.function_call_count = 0,
              !.cache_enabled = IF cfg.enable_caching # 0 THEN 1 ELSE @,
              !.noise_cache = IF cfg.enable_caching # 0 THEN ClearCache(@) ELSE @,
              !.profiling_enabled = cfg.enable_profiling,
              !.initialized = 1]

\* simplex_noise_init_advanced from line 242, global_config being cfg
Initialised(e, cfg) == Installed(e, cfg, Rebuild(e.perm, e.prng_state, cfg.prng_type, cfg.seed))

\* simplex_noise_init_advanced taking the null pointer for the default configuration
simplex_noise_init_advanced_defaulting(e, config, now) ==
    IF config = NULL
    THEN [e |-> Initialised(e, Seeded(simplex_get_default_config, now)), ret |-> 0]
    ELSE [e |-> Initialised(e, Seeded(config[1], now)), ret |-> 0]

\* simplex_noise_init_advanced(config); now is what time(NULL) returns, as a uint32_t
simplex_noise_init_advanced(e, config, now) ==
    IF config = NULL THEN [e |-> e, ret |-> -1]
    ELSE [e |-> Initialised(e, Seeded(config[1], now)), ret |-> 0]

\* simplex_noise_init(seed): the default configuration with the seed given
simplex_noise_init(e, seed, now) ==
    simplex_noise_init_advanced(e, Ref([simplex_get_default_config EXCEPT !.seed = seed]), now).e

\* simplex_set_prng rebuilding the table with the generator selected
simplex_set_prng_rebuilding(e, prng_type) ==
    IF prng_type >= SIMPLEX_PRG_COUNT THEN [e |-> e, ret |-> -1]
    ELSE [e |-> [e EXCEPT !.global_config.prng_type = prng_type,
                          !.prng_state = BuildPerm(e.perm, @, prng_type, e.global_config.seed).st,
                          !.perm = BuildPerm(@, e.prng_state, prng_type, e.global_config.seed).perm],
          ret |-> 0]

simplex_set_prng(e, prng_type) ==
    IF prng_type >= SIMPLEX_PRG_COUNT THEN [e |-> e, ret |-> -1]
    ELSE [e |-> [e EXCEPT !.global_config.prng_type = prng_type,
                          !.prng_state = prng_init(@, prng_type, e.global_config.seed)],
          ret |-> 0]

simplex_set_caching(e, enable) ==
    [e |-> [e EXCEPT !.global_config.enable_caching = IF enable # 0 THEN 1 ELSE 0,
                     !.cache_enabled = IF enable # 0 THEN 1 ELSE 0],
     ret |-> 0]

simplex_set_profiling(e, enable) ==
    [e |-> [e EXCEPT !.global_config.enable_profiling = IF enable # 0 THEN 1 ELSE 0,
                     !.profiling_enabled = IF enable # 0 THEN 1 ELSE 0],
     ret |-> 0]

simplex_reset_performance_stats(e) ==
    [e EXCEPT !.perf_stats = ZeroStats,
              !.function_call_count = 0,
              !.cache_hits = 0,
              !.cache_misses = 0]

simplex_get_function_call_count(e) == [e |-> e, ret |-> e.function_call_count]

simplex_get_cache_hits(e) == [e |-> e, ret |-> e.cache_hits]

simplex_get_cache_misses(e) == [e |-> e, ret |-> e.cache_misses]

\* simplex_cleanup with the statement profiling_enabled = 0 left out
simplex_cleanup_profiling(e) ==
    simplex_reset_performance_stats(
        [e EXCEPT !.initialized = 0,
                  !.cache_enabled = 0,
                  !.noise_cache = ClearCache(@)])

simplex_cleanup(e) ==
    simplex_reset_performance_stats(
        [e EXCEPT !.initialized = 0,
                  !.cache_enabled = 0,
                  !.profiling_enabled = 0,
                  !.noise_cache = ClearCache(@)])

\* a % m of C for ints: the remainder has the sign of a
Rem(a, m) == IF a >= 0 \/ a % m = 0 THEN a % m ELSE (a % m) - m

\* a ^ b of C for ints
XorInt(a, b) == Held(XorW(Word(a), Word(b)))

\* (int)(v * 1000)
Thousandths(v) == ToInt(v * 1000)

\* int hash = (a ^ b ^ c ^ d) % CACHE_SIZE; if (hash < 0) hash = -hash;
cache_slot(a, b, c, d) == fabs(Rem(XorInt(XorInt(XorInt(a, b), c), d), CACHE_SIZE))

\* the hash of cache_lookup and cache_store, a, b, c and d being
\* (int)(x * 1000), (int)(y * 1000), (int)(z * 1000) and (int)(w * 1000)
cache_hash(x, y, z, w) ==
    cache_slot(Thousandths(x), Thousandths(y), Thousandths(z), Thousandths(w))

\* fabs(a - b) < 1e-9: 1e-9 is below the resolution of the doubles modelled,
\* of which two are that close only when they are equal
Within(a, b) == fabs(a - b) < 1

\* the slot noise_cache[hash] holds a result for the point (x, y, z, w)
CacheHolds(cache, hash, x, y, z, w) ==
    /\ hash \in cache.valid
    /\ Within(cache.slot[hash].x, x)
    /\ Within(cache.slot[hash].y, y)
    /\ Within(cache.slot[hash].z, z)
    /\ Within(cache.slot[hash].w, w)

\* cache_lookup taking any valid slot for a hit
cache_lookup_valid(e, x, y, z, w) ==
    IF e.cache_enabled = 0 THEN [e |-> e, ret |-> 0]
    ELSE IF cache_hash(x, y, z, w) \in e.noise_cache.valid
    THEN [e |-> [e EXCEPT !.cache_hits = @ + 1],
          ret |-> e.noise_cache.slot[cache_hash(x, y, z, w)].result]
    ELSE [e |-> [e EXCEPT !.cache_misses = @ + 1], ret |-> 0]

cache_lookup(e, x, y, z, w) ==
    IF e.cache_enabled = 0 THEN [e |-> e, ret |-> 0]
    ELSE IF CacheHolds(e.noise_cache, cache_hash(x, y, z, w), x, y, z, w)
    THEN [e |-> [e EXCEPT !.cache_hits = @ + 1],
          ret |-> e.noise_cache.slot[cache_hash(x, y, z, w)].result]
    ELSE [e |-> [e EXCEPT !.cache_misses = @ + 1], ret |-> 0]

\* noise_cache[hash] = { x, y, z, w, result, 1 }
Cached(cache, hash, entry) ==
    [valid |-> cache.valid \cup { hash },
     slot |-> [h \in DOMAIN cache.slot \cup { hash } |->
                  IF h = hash THEN entry ELSE cache.slot[h]]]

cache_store(e, x, y, z, w, result) ==
    IF e.cache_enabled = 0 THEN e
    ELSE [e EXCEPT !.noise_cache =
              Cached(@, cache_hash(x, y, z, w),
                     [x |-> x, y |-> y, z |-> z, w |-> w, result |-> result])]

\* the kernels' first statement left out
LazyInit_absent(e, now) == e

\* if (!initialized) simplex_noise_init(0);   the first statement of every kernel
LazyInit(e, now) == IF e.initialized = 0 THEN simplex_noise_init(e, W32(0), now) ELSE e

(***************************************************************************)
(* Sampling.  Every function yields the engine after the call (e) and the  *)
(* value returned (ret).                                                   *)
(***************************************************************************)

\* the kernels on the engine e1 that the lazy-init test leaves
Sampled1d(e1, x) == [e |-> e1, ret |-> Kernel1d(e1.perm, x)]

\* simplex_noise_2d counting its calls: function_call_count++
Sampled2d_counting(e1, x, y) ==
    [e |-> [e1 EXCEPT !.function_call_count = @ + 1], ret |-> Kernel2d(e1.perm, x, y)]

\* simplex_noise_2d looking the point up in the cache first: with caching
\* on, a miss is counted
Sampled2d_cached(e1, x, y) ==
    [e |-> IF e1.cache_enabled = 1 THEN [e1 EXCEPT !.cache_misses = @ + 1] ELSE e1,
     ret |-> Kernel2d(e1.perm, x, y)]

Sampled2d(e1, x, y) == [e |-> e1, ret |-> Kernel2d(e1.perm, x, y)]

Sampled3d(e1, x, y, z) == [e |-> e1, ret |-> Kernel3d(e1.perm, x, y, z)]

Sampled4d(e1, x, y, z, w) == [e |-> e1, ret |-> Kernel4d(e1.perm, x, y, z, w)]

simplex_noise_1d(e, now, x) == Sampled1d(LazyInit(e, now), x)

simplex_noise_2d(e, now, x, y) == Sampled2d(LazyInit(e, now), x, y)

simplex_noise_3d(e, now, x, y, z) == Sampled3d(LazyInit(e, now), x, y, z)

simplex_noise_4d(e, now, x, y, z, w) == Sampled4d(LazyInit(e, now), x, y, z, w)

\* return 1.0 - noise;
Ridged_signed(n) == [e |-> n.e, ret |-> D(1) - n.ret]

\* return 1.0 - fabs(noise);   and   return fabs(noise);   n is the call of the kernel
Ridged(n) == [e |-> n.e, ret |-> D(1) - fabs(n.ret)]

Billowy(n) == [e |-> n.e, ret |-> fabs(n.ret)]

simplex_ridged_1d(e, now, x) == Ridged(simplex_noise_1d(e, now, x))

simplex_ridged_2d(e, now, x, y) == Ridged(simplex_noise_2d(e, now, x, y))

simplex_ridged_3d(e, now, x, y, z) == Ridged(simplex_noise_3d(e, now, x, y, z))

simplex_billowy_1d(e, now, x) == Billowy(simplex_noise_1d(e, now, x))

simplex_billowy_2d(e, now, x, y) == Billowy(simplex_noise_2d(e, now, x, y))

simplex_billowy_3d(e, now, x, y, z) == Billowy(simplex_noise_3d(e, now, x, y, z))

\* The loops of the composers carry a record a of the engine (e) and the
\* loop's variables.

\* value = 0.0, amplitude = 1.0, frequency = 1.0, maxValue = 0.0
Octaves(e) == [e |-> e, value |-> 0, amplitude |-> D(1), frequency |-> D(1), maxValue |-> 0]

\* the turn of the loop with maxValue counting the octaves:
\* maxValue += 1.0
Octave_counted(a, n, persistence, lacunarity) ==
    [e |-> n.e,
     value |-> a.value + FMul(n.ret, a.amplitude),
     amplitude |-> FMul(a.amplitude, persistence),
     frequency |-> FMul(a.frequency, lacunarity),
     maxValue |-> a.maxValue + D(1)]

\* one turn of the loop of an fBm, n being its call of the kernel:
\* value += n * amplitude; maxValue += amplitude;
\* amplitude *= persistence; frequency *= lacunarity;
Octave(a, n, persistence, lacunarity) ==
    [e |-> n.e,
     value |-> a.value + FMul(n.ret, a.amplitude),
     amplitude |-> FMul(a.amplitude, persistence),
     frequency |-> FMul(a.frequency, lacunarity),
     maxValue |-> a.maxValue + a.amplitude]

\* return value / maxValue;
Normalised(a) == [e |-> a.e, ret |-> FDiv(a.value, a.maxValue)]

\* the loop of simplex_fbm_2d: for (i = 0; i < octaves; i++)
RECURSIVE simplex_fbm_2d_loop(_, _, _, _, _, _, _, _)
simplex_fbm_2d_loop(a, now, x, y, i, octaves, persistence, lacunarity) ==
    IF i >= octaves THEN a
    ELSE simplex_fbm_2d_loop(
             Octave(a, simplex_noise_2d(a.e, now, FMul(x, a.frequency), FMul(y, a.frequency)),
                    persistence, lacunarity),
             now, x, y, i + 1, octaves, persistence, lacunarity)

simplex_fbm_2d(e, now, x, y, octaves, persistence, lacunarity) ==
    Normalised(simplex_fbm_2d_loop(Octaves(e), now, x, y, 0, octaves, persistence, lacunarity))

\* the loop of simplex_fbm_3d: for (i = 0; i < octaves; i++)
RECURSIVE simplex_fbm_3d_loop(_, _, _, _, _, _, _, _, _)
simplex_fbm_3d_loop(a, now, x, y, z, i, octaves, persistence, lacunarity) ==
    IF i >= octaves THEN a
    ELSE simplex_fbm_3d_loop(
             Octave(a, simplex_noise_3d(a.e, now, FMul(x, a.frequency), FMul(y, a.frequency),
                                        FMul(z, a.frequency)),
                    persistence, lacunarity),
             now, x, y, z, i + 1, octaves, persistence, lacunarity)

simplex_fbm_3d(e, now, x, y, z, octaves, persistence, lacunarity) ==
    Normalised(simplex_fbm_3d_loop(Octaves(e), now, x, y, z, 0, octaves, persistence,
                                   lacunarity))

\* value = 1.0, amplitude = 1.0, frequency = 1.0
HybridOctaves(e) == [e |-> e, value |-> D(1), amplitude |-> D(1), frequency |-> D(1)]

\* the turn adding to value as a turn of simplex_fbm_2d does
HybridOctave_added(a, n, persistence, lacunarity, offset) ==
    [e |-> n.e,
     value |-> a.value + FMul(offset + fabs(n.ret), a.amplitude),
     amplitude |-> FMul(a.amplitude, persistence),
     frequency |-> FMul(a.frequency, lacunarity)]

\* one turn of the loop of simplex_hybrid_multifractal_2d:
\* value *= (offset + fabs(n)) * amplitude; amplitude *= persistence; frequency *= lacunarity;
HybridOctave(a, n, persistence, lacunarity, offset) ==
    [e |-> n.e,
     value |-> FMul(a.value, FMul(offset + fabs(n.ret), a.amplitude)),
     amplitude |-> FMul(a.amplitude, persistence),
     frequency |-> FMul(a.frequency, lacunarity)]

\* the loop of simplex_hybrid_multifractal_2d
RECURSIVE simplex_hybrid_multifractal_2d_loop(_, _, _, _, _, _, _, _, _)
simplex_hybrid_multifractal_2d_loop(a, now, x, y, i, octaves, persistence, lacunarity, offset) ==
    IF i >= octaves THEN a
    ELSE simplex_hybrid_multifractal_2d_loop(
             HybridOctave(a, simplex_noise_2d(a.e, now, FMul(x, a.frequency),
                                              FMul(y, a.frequency)),
                          persistence, lacunarity, offset),
             now, x, y, i + 1, octaves, persistence, lacunarity, offset)

\* return value;
Valued(a) == [e |-> a.e, ret |-> a.value]

simplex_hybrid_multifractal_2d(e, now, x, y, octaves, persistence, lacunarity, offset) ==
    Valued(simplex_hybrid_multifractal_2d_loop(HybridOctaves(e), now, x, y, 0, octaves,
                                               persistence, lacunarity, offset))

\* the last call made at (warp_x + 100, warp_y + 100), the offset of the second call kept
domain_warp_2d_sample_offset(b, now, warp_x, y, warp_strength) ==
    simplex_noise_2d(b.e, now, warp_x + D(100), y + D(100) + FMul(b.ret, warp_strength))

\* return simplex_noise_2d(warp_x, warp_y);   b is the second call of the kernel
domain_warp_2d_sample(b, now, warp_x, y, warp_strength) ==
    simplex_noise_2d(b.e, now, warp_x, y + FMul(b.ret, warp_strength))

\* double warp_y = y + simplex_noise_2d(x + 100, y + 100) * warp_strength;
\* a is the first call of the kernel
domain_warp_2d_y(a, now, x, y, warp_strength) ==
    domain_warp_2d_sample(simplex_noise_2d(a.e, now, x + D(100), y + D(100)), now,
                          x + FMul(a.ret, warp_strength), y, warp_strength)

\* double warp_x = x + simplex_noise_2d(x, y) * warp_strength;
simplex_domain_warp_2d(e, now, x, y, warp_strength) ==
    domain_warp_2d_y(simplex_noise_2d(e, now, x, y), now, x, y, warp_strength)

\* the loop of simplex_fractal_2d: for (i = 0; i < octaves; i++)
RECURSIVE simplex_fractal_2d_loop(_, _, _, _, _, _, _, _)
simplex_fractal_2d_loop(a, now, x, y, i, octaves, persistence, lacunarity) ==
    IF i >= octaves THEN a
    ELSE simplex_fractal_2d_loop(
             Octave(a, simplex_noise_2d(a.e, now, FMul(x, a.frequency), FMul(y, a.frequency)),
                    persistence, lacunarity),
             now, x, y, i + 1, octaves, persistence, lacunarity)

\* simplex_fractal_2d with persistence and lacunarity exchanged in the loop
simplex_fractal_2d_exchanged(e, now, x, y, octaves, persistence, lacunarity) ==
    Normalised(simplex_fractal_2d_loop(Octaves(e), now, x, y, 0, octaves, lacunarity,
                                       persistence))

simplex_fractal_2d(e, now, x, y, octaves, persistence, lacunarity) ==
    Normalised(simplex_fractal_2d_loop(Octaves(e), now, x, y, 0, octaves, persistence,
                                       lacunarity))

\* the loop of simplex_fractal_3d: for (i = 0; i < octaves; i++)
RECURSIVE simplex_fractal_3d_loop(_, _, _, _, _, _, _, _, _)
simplex_fractal_3d_loop(a, now, x, y, z, i, octaves, persistence, lacunarity) ==
    IF i >= octaves THEN a
    ELSE simplex_fractal_3d_loop(
             Octave(a, simplex_noise_3d(a.e, now, FMul(x, a.frequency), FMul(y, a.frequency),
                                        FMul(z, a.frequency)),
                    persistence, lacunarity),
             now, x, y, z, i + 1, octaves, persistence, lacunarity)

simplex_fractal_3d(e, now, x, y, z, octaves, persistence, lacunarity) ==
    Normalised(simplex_fractal_3d_loop(Octaves(e), now, x, y, z, 0, octaves, persistence,
                                       lacunarity))

(***************************************************************************)
(* The array fills.  The caller's buffer is modelled by the writes made to *)
(* it: out is the sequence of << subscript, value >> in the order written. *)
(* The loops carry a record a of the engine (e) and the writes (out).      *)
(***************************************************************************)

\* output[subscript] = n;   n is the call of the kernel
Stored(a, subscript, n) == [e |-> n.e, out |-> Append(a.out, << subscript, n.ret >>)]

\* for (x = 0; x < width; x++) of simplex_noise_array_2d, in row y
RECURSIVE array_2d_row(_, _, _, _, _, _, _, _)
array_2d_row(a, now, x_start, y_start, width, step, y, x) ==
    IF x >= width THEN a
    ELSE array_2d_row(Stored(a, y * width + x,
                             simplex_noise_2d(a.e, now, x_start + x * step, y_start + y * step)),
                      now, x_start, y_start, width, step, y, x + 1)

\* for (y = 0; y < height; y++)
RECURSIVE array_2d_rows(_, _, _, _, _, _, _, _)
array_2d_rows(a, now, x_start, y_start, width, height, step, y) ==
    IF y >= height THEN a
    ELSE array_2d_rows(array_2d_row(a, now, x_start, y_start, width, step, y, 0),
                       now, x_start, y_start, width, height, step, y + 1)

\* return 0;
Filled(a) == [e |-> a.e, ret |-> 0, out |-> a.out]

\* simplex_noise_array_2d testing width < 0 || height < 0
simplex_noise_array_2d_empty(e, now, x_start, y_start, width, height, step, output) ==
    IF output = NULL \/ width < 0 \/ height < 0 THEN [e |-> e, ret |-> -1, out |-> << >>]
    ELSE Filled(array_2d_rows([e |-> e, out |-> << >>], now, x_start, y_start, width, height,
                              step, 0))

\* simplex_noise_array_2d with the loops' bounds exchanged: y runs to width, x to height
simplex_noise_array_2d_swapped(e, now, x_start, y_start, width, height, step, output) ==
    IF output = NULL \/ width <= 0 \/ height <= 0 THEN [e |-> e, ret |-> -1, out |-> << >>]
    ELSE Filled(array_2d_rows([e |-> e, out |-> << >>], now, x_start, y_start, height, width,
                              step, 0))

simplex_noise_array_2d(e, now, x_start, y_start, width, height, step, output) ==
    IF output = NULL \/ width <= 0 \/ height <= 0 THEN [e |-> e, ret |-> -1, out |-> << >>]
    ELSE Filled(array_2d_rows([e |-> e, out |-> << >>], now, x_start, y_start, width, height,
                              step, 0))

\* for (x = 0; x < width; x++) of simplex_noise_array_3d, in row y of slice z
RECURSIVE array_3d_row(_, _, _, _, _, _, _, _, _, _, _)
array_3d_row(a, now, x_start, y_start, z_start, width, height, step, z, y, x) ==
    IF x >= width THEN a
    ELSE array_3d_row(Stored(a, (z * height + y) * width + x,
                             simplex_noise_3d(a.e, now, x_start + x * step, y_start + y * step,
                                              z_start + z * step)),
                      now, x_start, y_start, z_start, width, height, step, z, y, x + 1)

\* for (y = 0; y < height; y++) in slice z
RECURSIVE array_3d_rows(_, _, _, _, _, _, _, _, _, _)
array_3d_rows(a, now, x_start, y_start, z_start, width, height, step, z, y) ==
    IF y >= height THEN a
    ELSE array_3d_rows(array_3d_row(a, now, x_start, y_start, z_start, width, height, step,
                                    z, y, 0),
                       now, x_start, y_start, z_start, width, height, step, z, y + 1)

\* for (z = 0; z < depth; z++)
RECURSIVE array_3d_slices(_, _, _, _, _, _, _, _, _, _)
array_3d_slices(a, now, x_start, y_start, z_start, width, height, depth, step, z) ==
    IF z >= depth THEN a
    ELSE array_3d_slices(array_3d_rows(a, now, x_start, y_start, z_start, width, height, step,
                                       z, 0),
                         now, x_start, y_start, z_start, width, height, depth, step, z + 1)

simplex_noise_array_3d(e, now, x_start, y_start, z_start, width, height, depth, step, output) ==
    IF output = NULL \/ width <= 0 \/ height <= 0 \/ depth <= 0
    THEN [e |-> e, ret |-> -1, out |-> << >>]
    ELSE Filled(array_3d_slices([e |-> e, out |-> << >>], now, x_start, y_start, z_start,
                                width, height, depth, step, 0))

(***************************************************************************)
(* The program as a state machine.  The caller makes one call at a time:   *)
(* a call is one step, which leaves in call, ret and written what the      *)
(* caller sees of it, and Return hands control back to the caller.         *)
(***************************************************************************)

\* the file-scope state as one record
Engine ==
    [perm |-> perm,
     initialized |-> initialized,
     global_config |-> global_config,
     perf_stats |-> perf_stats,
     prng_state |-> prng_state,
     noise_cache |-> noise_cache,
     cache_enabled |-> cache_enabled,
     cache_hits |-> cache_hits,
     cache_misses |-> cache_misses,
     profiling_enabled |-> profiling_enabled,
     function_call_count |-> function_call_count]

\* the file-scope state after the step is e
Becomes(e) ==
    /\ perm' = e.perm
    /\ initialized' = e.initialized
    /\ global_config' = e.global_config
    /\ perf_stats' = e.perf_stats
    /\ prng_state' = e.prng_state
    /\ noise_cache' = e.noise_cache
    /\ cache_enabled' = e.cache_enabled
    /\ cache_hits' = e.cache_hits
    /\ cache_misses' = e.cache_misses
    /\ profiling_enabled' = e.profiling_enabled
    /\ function_call_count' = e.function_call_count

\* no call is in progress
NoCall == [op |-> "none", args |-> << >>]

\* what a function returning void returns
NoValue == "void"

\* the configurations passed to simplex_noise_init_advanced: every selector
\* with the caller's seed, the default configuration (seed 0), and one with
\* caching off and profiling on
Configs ==
    { [simplex_get_default_config EXCEPT !.prng_type = t, !.seed = SomeSeed] :
          t \in 0..MaxPrngType }
    \cup { simplex_get_default_config,
           [prng_type |-> SIMPLEX_PRG_LINEAR_CONGRUENTIAL, seed |-> SomeSeed,
            enable_caching |-> 0, enable_profiling |-> 1] }

\* the coordinates sampled at, as << x, y, z, w >>
Points ==
    { << ONE \div 2, ONE \div 4, (3 * ONE) \div 2, (3 * ONE) \div 4 >>,
      << -((5 * ONE) \div 2), -((3 * ONE) \div 4), -((3 * ONE) \div 2), -((5 * ONE) \div 2) >> }

\* the parameters passed to the composers
Persistence == ONE \div 2

Lacunarity == 2 * ONE

Offset == (3 * ONE) \div 4

WarpStrength == ONE \div 2

\* the warp strengths passed: none, and WarpStrength
WarpStrengths == { 0, WarpStrength }

\* the step of the array fills
Step == ONE \div 4

\* the sizes passed to the array fills: every size of 1..MaxDim a side, and
\* the sizes with one side of 0 or -1 and the others 1
Sizes(sides) ==
    [1..sides -> 1..MaxDim]
    \cup { [i \in 1..sides |-> IF i = k THEN v ELSE 1] : k \in 1..sides, v \in { 0, -1 } }

\* the sizes and buffers passed together: every size with a buffer, and
\* the null pointer with the size of 1 a side and with the size of 0 a side
ArrayArgs(sides) ==
    { << size, Ref("output") >> : size \in Sizes(sides) }
    \cup { << [i \in 1..sides |-> v], NULL >> : v \in 0..1 }

(***************************************************************************)
(* The configuration interface.  A char array is a string (a NUL ends it,  *)
(* so no string holds one); a double is a fixed-point number as above; an  *)
(* int is an integer and a uint32_t a word.  The conversions of the C      *)
(* library are defined by what they do to the characters.                  *)
(***************************************************************************)

\* str[i - 1], "" standing for the terminating NUL and whatever follows it
CharAt(str, i) == IF 1 <= i /\ i <= Len(str) THEN SubSeq(str, i, i) ELSE ""

\* str + n
From(str, n) == SubSeq(str, n + 1, Len(str))

\* isspace in the "C" locale (but for the vertical tab)
isspace(c) == c \in { " ", "\t", "\n", "\r", "\f" }

DecimalDigits == "0123456789"

isdigit(c) == \E d \in 1..10 : CharAt(DecimalDigits, d) = c

DigitOf(c) == (CHOOSE d \in 1..10 : CharAt(DecimalDigits, d) = c) - 1

\* the decimal digits of n >= 0
RECURSIVE Decimal(_)
Decimal(n) ==
    IF n < 10 THEN CharAt(DecimalDigits, n + 1)
    ELSE Decimal(n \div 10) \o CharAt(DecimalDigits, (n % 10) + 1)

\* printf("%d", n)
FormatD(n) == IF n < 0 THEN "-" \o Decimal(-n) ELSE Decimal(n)

\* the bytes of a above the k-th, as a number modulo m
RECURSIVE RemAbove(_, _, _)
RemAbove(a, m, k) ==
    IF k >= Len(a) THEN 0 ELSE (RemAbove(a, m, k + 1) * 256 + a[k + 1]) % m

\* a / m for a word a and a small m
DivW(a, m) == [k \in 1..Len(a) |-> (RemAbove(a, m, k) * 256 + a[k]) \div m]

\* printf("%u", a)
RECURSIVE FormatU(_)
FormatU(a) ==
    IF DivW(a, 10) = W32(0) THEN Decimal(ModW(a, 10))
    ELSE FormatU(DivW(a, 10)) \o Decimal(ModW(a, 10))

\* n / d rounded to the nearest integer, a tie to the even one (n, d >= 0)
RoundHalfEven(n, d) ==
    IF 2 * (n % d) > d \/ (2 * (n % d) = d /\ (n \div d) % 2 = 1)
    THEN (n \div d) + 1
    ELSE n \div d

RECURSIVE PowerOf(_, _)
PowerOf(b, n) == IF n = 0 THEN 1 ELSE b * PowerOf(b, n - 1)

\* str padded with zeros on the left to n characters
RECURSIVE ZeroPadded(_, _)
ZeroPadded(str, n) == IF Len(str) >= n THEN str ELSE ZeroPadded("0" \o str, n)

\* the digits of the magnitude m of a double to n decimals: the integer
\* part carries when the fraction rounds up to 1
FormatMagnitude(m, n, frac) ==
    Decimal((m \div ONE) + (frac \div PowerOf(10, n))) \o "."
        \o ZeroPadded(Decimal(frac % PowerOf(10, n)), n)

\* printf("%.nf", v) for n <= 12: the fraction is (v mod 1) * 10^n, that
\* is (v mod ONE) * 5^n / (ONE / 2^n) in units of 1/ONE
FormatF(v, n) ==
    (IF v < 0 THEN "-" ELSE "")
        \o FormatMagnitude(fabs(v), n,
                           RoundHalfEven((fabs(v) % ONE) * PowerOf(5, n), ONE \div PowerOf(2, n)))

\* the string past its leading white space
RECURSIVE SkipSpace(_)
SkipSpace(str) == IF isspace(CharAt(str, 1)) THEN SkipSpace(From(str, 1)) ELSE str

\* the number of digits str starts with
RECURSIVE DigitRun(_)
DigitRun(str) == IF isdigit(CharAt(str, 1)) THEN 1 + DigitRun(From(str, 1)) ELSE 0

\* the value of the digits str starts with, after those worth acc
RECURSIVE DigitsValue(_, _)
DigitsValue(str, acc) ==
    IF isdigit(CharAt(str, 1))
    THEN DigitsValue(From(str, 1), acc * 10 + DigitOf(CharAt(str, 1)))
    ELSE acc

\* the string past an optional sign
Unsigned(str) == IF CharAt(str, 1) \in { "-", "+" } THEN From(str, 1) ELSE str

\* atoi(str): white space, an optional sign, digits; the rest is ignored
atoi(str) ==
    IF CharAt(SkipSpace(str), 1) = "-"
    THEN -DigitsValue(Unsigned(SkipSpace(str)), 0)
    ELSE DigitsValue(Unsigned(SkipSpace(str)), 0)

\* the same value as a word, modulo 2^32
RECURSIVE DigitsWord(_, _)
DigitsWord(str, acc) ==
    IF isdigit(CharAt(str, 1))
    THEN DigitsWord(From(str, 1), AddW(MulW(acc, W32(10)), W32(DigitOf(CharAt(str, 1)))))
    ELSE acc

\* -a modulo 2^32
NegW(a) == AddW([k \in 1..Len(a) |-> 255 - a[k]], W32(1))

\* (uint32_t)atoll(str), for a value that a long long holds
atoll_uint32(str) ==
    IF CharAt(SkipSpace(str), 1) = "-"
    THEN NegW(DigitsWord(Unsigned(SkipSpace(str)), W32(0)))
    ELSE DigitsWord(Unsigned(SkipSpace(str)), W32(0))

\* the string past the digits it starts with
PastDigits(str) == From(str, DigitRun(str))

\* the fraction .ddd that str starts with (if it does), in units of 1/ONE,
\* for at most 9 digits: ddd / 10^n = ddd * (ONE / 2^n) / 5^n / ONE
Fraction(str) ==
    IF CharAt(str, 1) = "." /\ DigitRun(From(str, 1)) > 0
    THEN RoundHalfEven(DigitsValue(From(str, 1), 0)
                           * (ONE \div PowerOf(2, DigitRun(From(str, 1)))),
                       PowerOf(5, DigitRun(From(str, 1))))
    ELSE 0

\* the magnitude of the decimal number str starts with
Magnitude(str) == DigitsValue(str, 0) * ONE + Fraction(PastDigits(str))

\* atof(str) for a decimal number without exponent: white space, an
\* optional sign, digits, an optional fraction; the rest is ignored
atof(str) ==
    IF CharAt(SkipSpace(str), 1) = "-"
    THEN -Magnitude(Unsigned(SkipSpace(str)))
    ELSE Magnitude(Unsigned(SkipSpace(str)))

SIMPLEX_NOISE_CLASSIC == 0

SIMPLEX_INTERP_SMOOTHSTEP == 3

SIMPLEX_PRECISION_DOUBLE == 1

SIMPLEX_CONFIG_JSON == 0
SIMPLEX_CONFIG_YAML == 1
SIMPLEX_CONFIG_INI == 2
SIMPLEX_CONFIG_BINARY == 3
SIMPLEX_CONFIG_COUNT == 4

\* sizeof(config->config_file), sizeof(config->output_file)
PathSize == 256

\* char line[512]; char key[256]; char value[256]; in load_ini_config
LineSize == 512

KeySize == 256

\* simplex_get_default_config: every field of simplex_config_t
DefaultConfig ==
    [prng_type |-> simplex_get_default_config.prng_type,
     noise_variant |-> SIMPLEX_NOISE_CLASSIC,
     interp_type |-> SIMPLEX_INTERP_SMOOTHSTEP,
     precision |-> SIMPLEX_PRECISION_DOUBLE,
     seed |-> simplex_get_default_config.seed,
     enable_simd |-> 0,
     enable_caching |-> simplex_get_default_config.enable_caching,
     enable_profiling |-> simplex_get_default_config.enable_profiling,
     persistence |-> ONE \div 2,
     lacunarity |-> D(2),
     octaves |-> 4,
     frequency |-> D(1),
     amplitude |-> D(1),
     offset |-> 0,
     scale |-> D(1),
     config_file |-> "",
     output_file |-> "",
     verbose_mode |-> 0,
     debug_mode |-> 0,
     auto_save |-> 0,
     validate_inputs |-> 1,
     cache_size_mb |-> D(16),
     max_threads |-> 1,
     chunk_size |-> 1024,
     memory_limit_mb |-> D(256)]

\* the keys of the fields of type int or of an enum type: those that
\* simplex_get_config_int and simplex_set_config_int know, but "seed"
IntKeys ==
    { "prng_type", "noise_variant", "interp_type", "precision", "enable_simd",
      "enable_caching", "enable_profiling", "octaves", "verbose_mode", "debug_mode",
      "auto_save", "validate_inputs", "max_threads", "chunk_size" }

\* the key of the field of type uint32_t
WordKeys == { "seed" }

\* the keys of the fields of type double printed with "%.6f", and with
\* "%.2f": together those that simplex_get_config_double and
\* simplex_set_config_double know
NoiseKeys == { "persistence", "lacunarity", "frequency", "amplitude", "offset", "scale" }

SizeKeys == { "cache_size_mb", "memory_limit_mb" }

\* the keys of the fields of type char[256]
PathKeys == { "config_file", "output_file" }

\* the keys that the string accessors and load_ini_config know
Keys == IntKeys \cup WordKeys \cup NoiseKeys \cup SizeKeys \cup PathKeys

\* the first n characters of str, if it has that many
Truncated(str, n) == IF Len(str) <= n THEN str ELSE SubSeq(str, 1, n)

\* what snprintf prints of the field key in simplex_get_config_string:
\* "%d", "%u", "%.6f", "%.2f" or "%s"
Printed(config, key) ==
    CASE key \in IntKeys -> FormatD(config[key])
      [] key \in WordKeys -> FormatU(config[key])
      [] key \in NoiseKeys -> FormatF(config[key], 6)
      [] key \in SizeKeys -> FormatF(config[key], 2)
      [] key \in PathKeys -> config[key]

\* what simplex_set_config_string and load_ini_config store in the field
\* key for the string value: atoi(value), (uint32_t)atoll(value),
\* atof(value), or strncpy of sizeof - 1 characters and a NUL
Scanned(key, value) ==
    CASE key \in IntKeys -> atoi(value)
      [] key \in WordKeys -> atoll_uint32(value)
      [] key \in NoiseKeys \cup SizeKeys -> atof(value)
      [] key \in PathKeys -> Truncated(value, PathSize - 1)

\* the config of an accessor is a pointer to the object, its key a pointer
\* to the string; what the accessor leaves: the object, the status returned
\* and the output written (none: << >>)
Accessed(config, status, out) == [config |-> config, ret |-> status, out |-> out]

\* *value = v, or the characters printed into value
Output(v) == << << 0, v >> >>

simplex_get_config_string(config, key, max_len) ==
    IF config = NULL \/ key = NULL \/ max_len = 0 THEN Accessed(config, -1, << >>)
    ELSE IF key[1] \in Keys
         THEN Accessed(config, 0, Output(Truncated(Printed(config[1], key[1]), max_len - 1)))
         ELSE Accessed(config, -1, << >>)

simplex_set_config_string(config, key, value) ==
    IF config = NULL \/ key = NULL \/ value = NULL THEN Accessed(config, -1, << >>)
    ELSE IF key[1] \in Keys
         THEN Accessed(Ref([config[1] EXCEPT ![key[1]] = Scanned(key[1], value[1])]), 0, << >>)
         ELSE Accessed(config, -1, << >>)

simplex_get_config_double(config, key) ==
    IF config = NULL \/ key = NULL THEN Accessed(config, -1, << >>)
    ELSE IF key[1] \in NoiseKeys \cup SizeKeys
         THEN Accessed(config, 0, Output(config[1][key[1]]))
         ELSE Accessed(config, -1, << >>)

\* simplex_set_config_double storing the value under any key that names a
\* field
simplex_set_config_double_any(config, key, value) ==
    IF config = NULL \/ key = NULL THEN Accessed(config, -1, << >>)
    ELSE IF key[1] \in Keys
         THEN Accessed(Ref([config[1] EXCEPT ![key[1]] = value]), 0, << >>)
         ELSE Accessed(config, -1, << >>)

simplex_set_config_double(config, key, value) ==
    IF config = NULL \/ key = NULL THEN Accessed(config, -1, << >>)
    ELSE IF key[1] \in NoiseKeys \cup SizeKeys
         THEN Accessed(Ref([config[1] EXCEPT ![key[1]] = value]), 0, << >>)
         ELSE Accessed(config, -1, << >>)

\* *value = config->key, and *value = (int)config->seed
simplex_get_config_int(config, key) ==
    IF config = NULL \/ key = NULL THEN Accessed(config, -1, << >>)
    ELSE IF key[1] \in IntKeys THEN Accessed(config, 0, Output(config[1][key[1]]))
    ELSE IF key[1] \in WordKeys THEN Accessed(config, 0, Output(Held(config[1][key[1]])))
    ELSE Accessed(config, -1, << >>)

\* config->key = value, and config->seed = (uint32_t)value
simplex_set_config_int(config, key, value) ==
    IF config = NULL \/ key = NULL THEN Accessed(config, -1, << >>)
    ELSE IF key[1] \in IntKeys
         THEN Accessed(Ref([config[1] EXCEPT ![key[1]] = value]), 0, << >>)
    ELSE IF key[1] \in WordKeys
         THEN Accessed(Ref([config[1] EXCEPT ![key[1]] = Word(value)]), 0, << >>)
    ELSE Accessed(config, -1, << >>)

\* str without the white space it ends with
RECURSIVE TrimRight(_)
TrimRight(str) ==
    IF isspace(CharAt(str, Len(str))) THEN TrimRight(SubSeq(str, 1, Len(str) - 1)) ELSE str

\* trim_whitespace(str)
trim_whitespace(str) == TrimRight(SkipSpace(str))

\* a string is searched Window characters at a time
Window == 32

\* the positions from lo to hi of the character c in str
Positions(str, c, lo, hi) == { i \in lo..hi : CharAt(str, i) = c }

\* the least of a set of numbers, 0 if it is empty
First(S) == IF S = { } THEN 0 ELSE CHOOSE i \in S : \A j \in S : i <= j

\* the position of the first c in str at or after the i-th character, 0 if
\* there is none, found being that among the first Window of them
RECURSIVE FirstFrom(_, _, _)
FirstFound(str, c, i, found) ==
    IF found # 0 THEN found ELSE FirstFrom(str, c, i + Window)

FirstFrom(str, c, i) ==
    IF i > Len(str) THEN 0
    ELSE FirstFound(str, c, i, First(Positions(str, c, i, i + Window - 1)))

\* strchr(str, c): the position of the first c in str, 0 if there is none
strchr(str, c) == FirstFrom(str, c, 1)

\* a value that is a lone quote: parse_key_value passes strlen(value) - 2,
\* that is (size_t)-1, to memmove
LoneQuote(value) == value = "\""

\* the value without the quotes around it, if it has them
Unquoted(value) ==
    IF Len(value) >= 2 /\ CharAt(value, 1) = "\"" /\ CharAt(value, Len(value)) = "\""
    THEN SubSeq(value, 2, Len(value) - 1)
    ELSE value

\* parse_key_value(line, key, value, max_len), eq being strchr(line, '=')
parse_key_value_at(line, eq, max_len) ==
    IF eq = 0 \/ eq - 1 >= max_len \/ Len(line) - eq >= max_len
    THEN [ret |-> -1, key |-> "", value |-> ""]
    ELSE [ret |-> 0,
          key |-> trim_whitespace(SubSeq(line, 1, eq - 1)),
          value |-> Unquoted(trim_whitespace(From(line, eq)))]

parse_key_value(line, max_len) == parse_key_value_at(line, strchr(line, "="), max_len)

\* the number of characters fgets reads of text into a buffer of size
\* characters: through the newline at nl (to the end if nl = 0), and no more
\* than size - 1
fgets_to(text, size, nl) ==
    IF nl = 0 \/ nl > size - 1
    THEN (IF Len(text) <= size - 1 THEN Len(text) ELSE size - 1)
    ELSE nl

fgets(text, size) == fgets_to(text, size, strchr(text, "\n"))

\* the body of the loop of load_ini_config for a line read and trimmed
load_ini_pair(config, pair) ==
    IF pair.ret = 0 /\ pair.key \in Keys
    THEN [config EXCEPT ![pair.key] = Scanned(pair.key, pair.value)]
    ELSE config

load_ini_line(config, line) ==
    IF CharAt(line, 1) \in { "#", ";", "" } THEN config
    ELSE load_ini_pair(config, parse_key_value(line, KeySize))

\* while (fgets(line, sizeof(line), file)) ...
\* A read ends at every newline, so the loop over text is the loop over
\* what precedes a newline followed by the loop over what follows it: text
\* is split at the first newline of its second half (at nl), which keeps
\* the evaluation shallow.
RECURSIVE load_ini_lines(_, _)
load_ini_read(text, config, n) ==
    load_ini_lines(From(text, n), load_ini_line(config, trim_whitespace(SubSeq(text, 1, n))))

load_ini_rest(text, first) == IF Evaluated(first) THEN load_ini_lines(text, first) ELSE first

load_ini_split(text, config, nl) ==
    IF nl = 0 \/ nl >= Len(text) THEN load_ini_read(text, config, fgets(text, LineSize))
    ELSE load_ini_rest(From(text, nl), load_ini_lines(SubSeq(text, 1, nl), config))

load_ini_lines(text, config) ==
    IF text = "" THEN config
    ELSE load_ini_split(text, config, FirstFrom(text, "\n", (Len(text) \div 2) + 1))

\* a line of text has a lone quote for value
RECURSIVE HasLoneQuote(_)
HasLoneQuoteRead(text, n) ==
    \/ LoneQuote(parse_key_value(trim_whitespace(SubSeq(text, 1, n)), KeySize).value)
    \/ HasLoneQuote(From(text, n))

HasLoneQuoteSplit(text, nl) ==
    IF nl = 0 \/ nl >= Len(text) THEN HasLoneQuoteRead(text, fgets(text, LineSize))
    ELSE HasLoneQuote(SubSeq(text, 1, nl)) \/ HasLoneQuote(From(text, nl))

HasLoneQuote(text) ==
    /\ text # ""
    /\ HasLoneQuoteSplit(text, FirstFrom(text, "\n", (Len(text) \div 2) + 1))

\* the file system: files[name] is NULL when there is no file of that name
\* and a pointer to its text otherwise.  load_ini_config(filename, config)
load_ini_config(fs, filename, config) ==
    IF fs[filename] = NULL THEN [config |-> config, ret |-> -1]
    ELSE [config |-> load_ini_lines(fs[filename][1], config), ret |-> 0]

\* __DATE__ " " __TIME__
BuildStamp == "Nov  6 2026 11:05:27"

\* fprintf(file, "key=%d\n", config->key), and likewise with the other formats
FieldLine(config, key) == key \o "=" \o Printed(config, key) \o "\n"

\* fprintf(file, "key=\"%s\"\n", config->key)
PathLine(config, key) == key \o "=\"" \o config[key] \o "\"\n"

\* what save_ini_config prints, section by section
CoreSection(config) ==
    "[core]\n"
        \o FieldLine(config, "prng_type")
        \o FieldLine(config, "noise_variant")
        \o FieldLine(config, "interp_type")
        \o FieldLine(config, "precision")
        \o FieldLine(config, "seed")

PerformanceSection(config) ==
    "\n[performance]\n"
        \o FieldLine(config, "enable_simd")
        \o FieldLine(config, "enable_caching")
        \o FieldLine(config, "enable_profiling")
        \o FieldLine(config, "cache_size_mb")
        \o FieldLine(config, "max_threads")
        \o FieldLine(config, "chunk_size")
        \o FieldLine(config, "memory_limit_mb")

NoiseSection(config) ==
    "\n[noise_parameters]\n"
        \o FieldLine(config, "persistence")
        \o FieldLine(config, "lacunarity")
        \o FieldLine(config, "octaves")
        \o FieldLine(config, "frequency")
        \o FieldLine(config, "amplitude")
        \o FieldLine(config, "offset")
        \o FieldLine(config, "scale")

AdvancedSection(config) ==
    "\n[advanced]\n"
        \o PathLine(config, "config_file")
        \o PathLine(config, "output_file")
        \o FieldLine(config, "verbose_mode")
        \o FieldLine(config, "debug_mode")
        \o FieldLine(config, "auto_save")
        \o FieldLine(config, "validate_inputs")

IniText(config) ==
    "# Simplex Noise Configuration File\n"
        \o "# Generated on " \o BuildStamp \o "\n\n"
        \o CoreSection(config)
        \o PerformanceSection(config)
        \o NoiseSection(config)
        \o AdvancedSection(config)

\* fopen(filename, "w") fails for a file of a directory that does not exist
MissingDirectory == "missing/"

Writable(filename) == Truncated(filename, Len(MissingDirectory)) # MissingDirectory

save_ini_config(fs, filename, config) ==
    IF ~Writable(filename) THEN [fs |-> fs, ret |-> -1]
    ELSE [fs |-> [fs EXCEPT ![filename] = Ref(IniText(config))], ret |-> 0]

\* the object config points to is left as res.config
LoadedBy(res) == [config |-> Ref(res.config), ret |-> res.ret]

\* simplex_load_config(filename, config_type, config) for a config_type
\* other than SIMPLEX_CONFIG_JSON (the JSON reader is not modelled):
\* *config = simplex_get_default_config() comes first
simplex_load_config(fs, filename, config_type, config) ==
    IF filename = NULL \/ config = NULL THEN [config |-> config, ret |-> -1]
    ELSE IF config_type = SIMPLEX_CONFIG_INI
         THEN LoadedBy(load_ini_config(fs, filename[1], DefaultConfig))
         ELSE [config |-> Ref(DefaultConfig), ret |-> -1]

\* simplex_save_config(filename, config_type, config), likewise
simplex_save_config(fs, filename, config_type, config) ==
    IF filename = NULL \/ config = NULL THEN [fs |-> fs, ret |-> -1]
    ELSE IF config_type = SIMPLEX_CONFIG_INI THEN save_ini_config(fs, filename[1], config[1])
    ELSE [fs |-> fs, ret |-> -1]

\* no thread is rebuilding the table
Idle == [pc |-> "idle", i |-> 0, j |-> 0, temp |-> 0, before |-> ZeroPerm, after |-> ZeroPerm]

\* the state when the program is loaded
Loaded ==
    /\ rebuilding = Idle
    /\ perm = ZeroEngine.perm
    /\ initialized = ZeroEngine.initialized
    /\ global_config = ZeroEngine.global_config
    /\ perf_stats = ZeroEngine.perf_stats
    /\ prng_state = ZeroEngine.prng_state
    /\ noise_cache = ZeroEngine.noise_cache
    /\ cache_enabled = ZeroEngine.cache_enabled
    /\ cache_hits = ZeroEngine.cache_hits
    /\ cache_misses = ZeroEngine.cache_misses
    /\ profiling_enabled = ZeroEngine.profiling_enabled
    /\ function_call_count = ZeroEngine.function_call_count
    /\ call = NoCall
    /\ ret = NoValue
    /\ written = << >>
    /\ calls = 0

\* the files the caller names: one it can write, and one of a directory
\* that does not exist
FileNames == { "a.ini", MissingDirectory \o "b.ini" }

NoFiles == [name \in FileNames |-> NULL]

\* the caller holds two objects with the default configuration, and there
\* are no files
Init ==
    /\ Loaded
    /\ caller_config = DefaultConfig
    /\ loaded = DefaultConfig
    /\ files = NoFiles
    /\ saved = NoFiles

\* the call op(args) is made: it leaves the engine as e, returns r and
\* writes out to the caller's buffer
Calls(op, args, e, r, out) ==
    /\ call = NoCall
    /\ Becomes(e)
    /\ call' = [op |-> op, args |-> args]
    /\ ret' = r
    /\ written' = out
    /\ UNCHANGED rebuilding

\* one more configuring call is made
Counted == calls < MaxCalls /\ calls' = calls + 1

\* a call that configures the engine and returns a status, counted when it succeeds
Configures(op, args, res) ==
    /\ Calls(op, args, res.e, res.ret, << >>)
    /\ IF res.ret = 0 THEN Counted ELSE UNCHANGED calls
    /\ UNCHANGED config_vars

\* a call that configures the engine and returns nothing
Reconfigures(op, args, e) ==
    /\ Calls(op, args, e, NoValue, << >>)
    /\ Counted
    /\ UNCHANGED config_vars

\* what time(NULL) may return to a call: every call of it in the program is
\* under a test (of the seed for the initialisers, of initialized for the
\* samplers), and a call that does not read the clock does the same
\* whatever the time
Clock(read) == IF read THEN TimeValues ELSE { W32(0) }

\* a call that samples
Samples(op, args, res) ==
    /\ Calls(op, args, res.e, res.ret, << >>)
    /\ UNCHANGED << calls, config_vars >>

\* a call that fills the caller's buffer
Fills(op, args, res) ==
    /\ Calls(op, args, res.e, res.ret, res.out)
    /\ UNCHANGED << calls, config_vars >>

InitAdvanced ==
    \E config \in { NULL } \cup { Ref(c) : c \in Configs } :
      \E now \in Clock(config # NULL /\ config[1].seed = W32(0)) :
        Configures("simplex_noise_init_advanced", << config >>,
                   simplex_noise_init_advanced(Engine, config, now))

NoiseInit ==
    \E seed \in { W32(0), SomeSeed } :
      \E now \in Clock(seed = W32(0)) :
        Reconfigures("simplex_noise_init", << seed >>, simplex_noise_init(Engine, seed, now))

SetPrng ==
    \E prng_type \in 0..MaxPrngType :
        Configures("simplex_set_prng", << prng_type >>, simplex_set_prng(Engine, prng_type))

SetCaching ==
    \E enable \in 0..1 :
        Configures("simplex_set_caching", << enable >>, simplex_set_caching(Engine, enable))

SetProfiling ==
    \E enable \in 0..1 :
        Configures("simplex_set_profiling", << enable >>,
                   simplex_set_profiling(Engine, enable))

ResetPerformanceStats ==
    Reconfigures("simplex_reset_performance_stats", << >>,
                 simplex_reset_performance_stats(Engine))

Cleanup == Reconfigures("simplex_cleanup", << >>, simplex_cleanup(Engine))

GetFunctionCallCount ==
    Samples("simplex_get_function_call_count", << >>, simplex_get_function_call_count(Engine))

GetCacheHits == Samples("simplex_get_cache_hits", << >>, simplex_get_cache_hits(Engine))

GetCacheMisses == Samples("simplex_get_cache_misses", << >>, simplex_get_cache_misses(Engine))

Noise1d ==
    \E p \in Points, now \in Clock(initialized = 0) :
        Samples("simplex_noise_1d", << p[1] >>, simplex_noise_1d(Engine, now, p[1]))

Noise2d ==
    \E p \in Points, now \in Clock(initialized = 0) :
        Samples("simplex_noise_2d", << p[1], p[2] >>,
                simplex_noise_2d(Engine, now, p[1], p[2]))

Noise3d ==
    \E p \in Points, now \in Clock(initialized = 0) :
        Samples("simplex_noise_3d", << p[1], p[2], p[3] >>,
                simplex_noise_3d(Engine, now, p[1], p[2], p[3]))

Noise4d ==
    \E p \in Points, now \in Clock(initialized = 0) :
        Samples("simplex_noise_4d", << p[1], p[2], p[3], p[4] >>,
                simplex_noise_4d(Engine, now, p[1], p[2], p[3], p[4]))

Ridged1d ==
    \E p \in Points, now \in Clock(initialized = 0) :
        Samples("simplex_ridged_1d", << p[1] >>, simplex_ridged_1d(Engine, now, p[1]))

Ridged2d ==
    \E p \in Points, now \in Clock(initialized = 0) :
        Samples("simplex_ridged_2d", << p[1], p[2] >>,
                simplex_ridged_2d(Engine, now, p[1], p[2]))

Ridged3d ==
    \E p \in Points, now \in Clock(initialized = 0) :
        Samples("simplex_ridged_3d", << p[1], p[2], p[3] >>,
                simplex_ridged_3d(Engine, now, p[1], p[2], p[3]))

Billowy1d ==
    \E p \in Points, now \in Clock(initialized = 0) :
        Samples("simplex_billowy_1d", << p[1] >>, simplex_billowy_1d(Engine, now, p[1]))

Billowy2d ==
    \E p \in Points, now \in Clock(initialized = 0) :
        Samples("simplex_billowy_2d", << p[1], p[2] >>,
                simplex_billowy_2d(Engine, now, p[1], p[2]))

Billowy3d ==
    \E p \in Points, now \in Clock(initialized = 0) :
        Samples("simplex_billowy_3d", << p[1], p[2], p[3] >>,
                simplex_billowy_3d(Engine, now, p[1], p[2], p[3]))

Fbm2d ==
    \E p \in Points, octaves \in 0..MaxOctaves, now \in Clock(initialized = 0) :
        Samples("simplex_fbm_2d", << p[1], p[2], octaves, Persistence, Lacunarity >>,
                simplex_fbm_2d(Engine, now, p[1], p[2], octaves, Persistence, Lacunarity))

Fbm3d ==
    \E p \in Points, octaves \in 0..MaxOctaves, now \in Clock(initialized = 0) :
        Samples("simplex_fbm_3d", << p[1], p[2], p[3], octaves, Persistence, Lacunarity >>,
                simplex_fbm_3d(Engine, now, p[1], p[2], p[3], octaves, Persistence,
                               Lacunarity))

HybridMultifractal2d ==
    \E p \in Points, octaves \in -1..MaxOctaves, now \in Clock(initialized = 0) :
        Samples("simplex_hybrid_multifractal_2d",
                << p[1], p[2], octaves, Persistence, Lacunarity, Offset >>,
                simplex_hybrid_multifractal_2d(Engine, now, p[1], p[2], octaves, Persistence,
                                               Lacunarity, Offset))

DomainWarp2d ==
    \E p \in Points, warp_strength \in WarpStrengths, now \in Clock(initialized = 0) :
        Samples("simplex_domain_warp_2d", << p[1], p[2], warp_strength >>,
                simplex_domain_warp_2d(Engine, now, p[1], p[2], warp_strength))

Fractal2d ==
    \E p \in Points, octaves \in 0..MaxOctaves, now \in Clock(initialized = 0) :
        Samples("simplex_fractal_2d", << p[1], p[2], octaves, Persistence, Lacunarity >>,
                simplex_fractal_2d(Engine, now, p[1], p[2], octaves, Persistence, Lacunarity))

Fractal3d ==
    \E p \in Points, octaves \in 0..MaxOctaves, now \in Clock(initialized = 0) :
        Samples("simplex_fractal_3d", << p[1], p[2], p[3], octaves, Persistence, Lacunarity >>,
                simplex_fractal_3d(Engine, now, p[1], p[2], p[3], octaves, Persistence,
                                   Lacunarity))

Array2d ==
    \E p \in Points, a \in ArrayArgs(2), now \in Clock(initialized = 0) :
        Fills("simplex_noise_array_2d", << p[1], p[2], a[1][1], a[1][2], Step, a[2] >>,
              simplex_noise_array_2d(Engine, now, p[1], p[2], a[1][1], a[1][2], Step, a[2]))

Array3d ==
    \E p \in Points, a \in ArrayArgs(3), now \in Clock(initialized = 0) :
        Fills("simplex_noise_array_3d",
              << p[1], p[2], p[3], a[1][1], a[1][2], a[1][3], Step, a[2] >>,
              simplex_noise_array_3d(Engine, now, p[1], p[2], p[3], a[1][1], a[1][2], a[1][3],
                                     Step, a[2]))

\* the call returns to the caller
Return ==
    /\ call # NoCall
    /\ call' = NoCall
    /\ ret' = NoValue
    /\ written' = << >>
    /\ UNCHANGED << engine_vars, calls, config_vars, rebuilding >>

Next ==
    \/ InitAdvanced
    \/ NoiseInit
    \/ SetPrng
    \/ SetCaching
    \/ SetProfiling
    \/ ResetPerformanceStats
    \/ Cleanup
    \/ GetFunctionCallCount
    \/ GetCacheHits
    \/ GetCacheMisses
    \/ Noise1d
    \/ Noise2d
    \/ Noise3d
    \/ Noise4d
    \/ Ridged1d
    \/ Ridged2d
    \/ Ridged3d
    \/ Billowy1d
    \/ Billowy2d
    \/ Billowy3d
    \/ Fbm2d
    \/ Fbm3d
    \/ HybridMultifractal2d
    \/ DomainWarp2d
    \/ Fractal2d
    \/ Fractal3d
    \/ Array2d
    \/ Array3d
    \/ Return

Spec == Init /\ [][Next]_vars

(***************************************************************************)
(* The calls of the configuration interface.  They leave the engine as it  *)
(* is.                                                                     *)
(***************************************************************************)

\* the objects the caller may hold to begin with
CallerConfigs ==
    { [DefaultConfig EXCEPT !.seed = SomeSeed, !.octaves = 6, !.output_file = "out.raw"],
      [DefaultConfig EXCEPT !.seed = SomeSeed, !.octaves = 6,
                            !.config_file = "a\nseed=7\noctaves=9"] }

\* the arguments passed
KeysPassed ==
    { NULL }
    \cup { Ref(key) : key \in { "seed", "octaves", "persistence", "cache_size_mb",
                                "config_file", "no_such_key" } }

StringsPassed == { NULL, Ref(" 42") }

DoublesPassed == { ONE \div 4 }

IntsPassed == { -1 }

LengthsPassed == { 0, 4 }

TypesPassed ==
    { SIMPLEX_CONFIG_YAML, SIMPLEX_CONFIG_INI, SIMPLEX_CONFIG_BINARY, SIMPLEX_CONFIG_COUNT }

FilesPassed == { NULL } \cup { Ref(name) : name \in FileNames }

ConfigInit ==
    /\ Loaded
    /\ caller_config \in CallerConfigs
    /\ loaded = DefaultConfig
    /\ files = NoFiles
    /\ saved = NoFiles

\* a call that reads the caller's object
Gets(op, args, res) ==
    /\ Calls(op, args, Engine, res.ret, res.out)
    /\ UNCHANGED << calls, config_vars >>

\* a call that writes to the caller's object, counted when it succeeds
Sets(op, args, res) ==
    /\ Calls(op, args, Engine, res.ret, res.out)
    /\ IF res.ret = 0
       THEN Counted /\ caller_config' = res.config[1]
       ELSE UNCHANGED << calls, caller_config >>
    /\ UNCHANGED << loaded, files, saved >>

GetConfigString ==
    \E config \in { NULL, Ref(caller_config) }, key \in KeysPassed, max_len \in LengthsPassed :
        Gets("simplex_get_config_string", << config, key, max_len >>,
             simplex_get_config_string(config, key, max_len))

SetConfigString ==
    \E config \in { NULL, Ref(caller_config) }, key \in KeysPassed, value \in StringsPassed :
        Sets("simplex_set_config_string", << config, key, value >>,
             simplex_set_config_string(config, key, value))

GetConfigDouble ==
    \E config \in { NULL, Ref(caller_config) }, key \in KeysPassed :
        Gets("simplex_get_config_double", << config, key >>,
             simplex_get_config_double(config, key))

SetConfigDouble ==
    \E config \in { NULL, Ref(caller_config) }, key \in KeysPassed, value \in DoublesPassed :
        Sets("simplex_set_config_double", << config, key, value >>,
             simplex_set_config_double(config, key, value))

GetConfigInt ==
    \E config \in { NULL, Ref(caller_config) }, key \in KeysPassed :
        Gets("simplex_get_config_int", << config, key >>, simplex_get_config_int(config, key))

SetConfigInt ==
    \E config \in { NULL, Ref(caller_config) }, key \in KeysPassed, value \in IntsPassed :
        Sets("simplex_set_config_int", << config, key, value >>,
             simplex_set_config_int(config, key, value))

\* a call that saves, counted when it succeeds
Saves(op, args, res) ==
    /\ Calls(op, args, Engine, res.ret, << >>)
    /\ files' = res.fs
    /\ IF res.ret = 0
       THEN Counted /\ saved' = [saved EXCEPT ![args[1][1]] = args[3]]
       ELSE UNCHANGED << calls, saved >>
    /\ UNCHANGED << caller_config, loaded >>

SaveConfig ==
    \E filename \in FilesPassed, config_type \in TypesPassed,
       config \in { NULL, Ref(caller_config) } :
        Saves("simplex_save_config", << filename, config_type, config >>,
              simplex_save_config(files, filename, config_type, config))

\* a call that loads, counted when it succeeds
Loads(op, args, res) ==
    /\ Calls(op, args, Engine, res.ret, << >>)
    /\ loaded' = IF res.config = NULL THEN loaded ELSE res.config[1]
    /\ IF res.ret = 0 THEN Counted ELSE UNCHANGED calls
    /\ UNCHANGED << caller_config, files, saved >>

\* the file named can be read as an INI file
Readable(filename) ==
    IF filename = NULL THEN TRUE
    ELSE IF files[filename[1]] = NULL THEN TRUE
    ELSE ~HasLoneQuote(files[filename[1]][1])

LoadConfig ==
    \E filename \in { name \in FilesPassed : Readable(name) } :
      \E config_type \in TypesPassed, config \in { NULL, Ref(loaded) } :
        /\ Loads("simplex_load_config", << filename, config_type, config >>,
                 simplex_load_config(files, filename, config_type, config))

ConfigNext ==
    \/ GetConfigString
    \/ SetConfigString
    \/ GetConfigDouble
    \/ SetConfigDouble
    \/ GetConfigInt
    \/ SetConfigInt
    \/ SaveConfig
    \/ LoadConfig
    \/ Return

ConfigSpec == ConfigInit /\ [][ConfigNext]_vars

(***************************************************************************)
(* The lattice steps of the kernels on their own: the floor of a skewed    *)
(* coordinate and the ordering of the corners, applied to values given.    *)
(* They read and write no file-scope object.                               *)
(***************************************************************************)

\* the values fast_floor is applied to: zero, the integers about it and the
\* values between them and next to them
FloorValues ==
    { D(n) + f : n \in -3..2, f \in { 0, 1, ONE \div 2, ONE - 1 } }

\* the unskewed offsets the orderings are applied to
OffsetValues == { 0, ONE \div 4, ONE \div 2, (3 * ONE) \div 4 }

\* a step of a kernel applied to args, yielding r
Applies(op, args, r) == Samples(op, args, [e |-> Engine, ret |-> r])

FastFloor == \E v \in FloorValues : Applies("fast_floor", << v >>, fast_floor(v))

Orders2d == \E x0, y0 \in OffsetValues : Applies("Order2d", << x0, y0 >>, Order2d(x0, y0))

Orders3d ==
    \E x0, y0, z0 \in OffsetValues :
        Applies("Order3d", << x0, y0, z0 >>, Order3d(x0, y0, z0))

\* the row simplex[c] looked up, and the ordering from it
Orders4d ==
    \E x0, y0, z0, w0 \in OffsetValues :
        Applies("Order4d", << x0, y0, z0, w0 >>,
                [row |-> At(simplex, Code4d(x0, y0, z0, w0)),
                 steps |-> Order4d(At(simplex, Code4d(x0, y0, z0, w0)))])

LatticeNext ==
    \/ FastFloor
    \/ Orders2d
    \/ Orders3d
    \/ Orders4d
    \/ Return

LatticeSpec == Init /\ [][LatticeNext]_vars

(***************************************************************************)
(* The cache on its own: cache_lookup and cache_store, which no function   *)
(* of the file calls, applied to the engine as the calls before left it.   *)
(***************************************************************************)

\* the lookups made are at most
MaxLookups == 2

\* the points looked up and stored: two that hash to the same slot, and one
\* with a negative coordinate
CachePoints ==
    { << ONE \div 2, ONE \div 4, 0, 0 >>,
      << ONE \div 4, ONE \div 2, 0, 0 >>,
      << -(ONE \div 2), ONE \div 4, 0, 0 >> }

\* the results stored
CacheResults == { ONE \div 2, -(ONE \div 4) }

CacheLookup ==
    \E p \in CachePoints :
        /\ cache_hits + cache_misses < MaxLookups
        /\ Samples("cache_lookup", p, cache_lookup(Engine, p[1], p[2], p[3], p[4]))

CacheStore ==
    \E p \in CachePoints, result \in CacheResults :
        Samples("cache_store", p \o << result >>,
                [e |-> cache_store(Engine, p[1], p[2], p[3], p[4], result), ret |-> NoValue])

CacheNext ==
    \/ SetCaching
    \/ CacheLookup
    \/ CacheStore
    \/ Return

CacheSpec == Init /\ [][CacheNext]_vars

(***************************************************************************)
(* The rebuild statement by statement.  A second thread executes           *)
(* simplex_noise_init_advanced (lines 236..277) one statement at a time    *)
(* on an engine that is initialised, while the caller samples: the file    *)
(* has no lock, so a kernel call may come between any two statements.  A   *)
(* kernel call is one step.                                                *)
(***************************************************************************)

\* the rebuilds made are at most
MaxRebuilds == 1

\* the configurations the second thread initialises with
RebuildConfigs ==
    { [simplex_get_default_config EXCEPT !.prng_type = t, !.seed = SomeSeed] :
          t \in { SIMPLEX_PRG_LINEAR_CONGRUENTIAL, SIMPLEX_PRG_PCG } }

\* the engine after simplex_noise_init(12345) in a freshly loaded program
OnceInitialised == simplex_noise_init(ZeroEngine, SomeSeed, W32(0))

RebuildInit ==
    /\ perm = OnceInitialised.perm
    /\ initialized = OnceInitialised.initialized
    /\ global_config = OnceInitialised.global_config
    /\ perf_stats = OnceInitialised.perf_stats
    /\ prng_state = OnceInitialised.prng_state
    /\ noise_cache = OnceInitialised.noise_cache
    /\ cache_enabled = OnceInitialised.cache_enabled
    /\ cache_hits = OnceInitialised.cache_hits
    /\ cache_misses = OnceInitialised.cache_misses
    /\ profiling_enabled = OnceInitialised.profiling_enabled
    /\ function_call_count = OnceInitialised.function_call_count
    /\ call = NoCall
    /\ ret = NoValue
    /\ written = << >>
    /\ calls = 0
    /\ caller_config = DefaultConfig
    /\ loaded = DefaultConfig
    /\ files = NoFiles
    /\ saved = NoFiles
    /\ rebuilding = Idle

\* what the loops of the rebuild leave alone
installed_vars == << initialized, perf_stats, noise_cache, cache_enabled, cache_hits,
                     cache_misses, profiling_enabled, function_call_count >>

\* the second thread executes a statement between two calls of the caller,
\* and is then as r says
Rebuilds(r) ==
    /\ call = NoCall
    /\ rebuilding' = r
    /\ UNCHANGED << call, ret, written, config_vars >>

\* global_config = *config; prng_init(global_config.seed);   (the seed is not 0)
RebuildBegin ==
    \E config \in RebuildConfigs :
        /\ rebuilding.pc = "idle"
        /\ calls < MaxRebuilds
        /\ calls' = calls + 1
        /\ global_config' = Seeded(config, W32(0))
        /\ prng_state' = prng_init(prng_state, config.prng_type, config.seed)
        /\ Rebuilds([Idle EXCEPT !.pc = "fill",
                                 !.before = perm,
                                 !.after = simplex_noise_init_advanced(Engine, Ref(config),
                                                                       W32(0)).e.perm])
        /\ UNCHANGED << perm, installed_vars >>

\* perm[i] = i; i++   and, past the last turn, i = 255 for the shuffle
RebuildFill ==
    /\ rebuilding.pc = "fill"
    /\ perm' = FillIdentity(perm, rebuilding.i, rebuilding.i)
    /\ Rebuilds(IF rebuilding.i = 255
                THEN [rebuilding EXCEPT !.pc = "shuffle", !.i = 255]
                ELSE [rebuilding EXCEPT !.i = @ + 1])
    /\ UNCHANGED << calls, global_config, prng_state, installed_vars >>

\* j = prng_next() % (i + 1); temp = perm[i]; perm[i] = perm[j];
RebuildDraw ==
    /\ rebuilding.pc = "shuffle"
    /\ LET r == prng_next(prng_state, global_config.prng_type)
       IN  /\ prng_state' = r.st
           /\ perm' = [perm EXCEPT ![rebuilding.i] = perm[ModW(r.out, rebuilding.i + 1)]]
           /\ Rebuilds([rebuilding EXCEPT !.pc = "swap",
                                          !.j = ModW(r.out, rebuilding.i + 1),
                                          !.temp = perm[rebuilding.i]])
    /\ UNCHANGED << calls, global_config, installed_vars >>

\* perm[j] = temp; i--   and, past the last turn, i = 0 for the duplication
RebuildSwap ==
    /\ rebuilding.pc = "swap"
    /\ perm' = [perm EXCEPT ![rebuilding.j] = rebuilding.temp]
    /\ Rebuilds(IF rebuilding.i = 1
                THEN [rebuilding EXCEPT !.pc = "duplicate", !.i = 0]
                ELSE [rebuilding EXCEPT !.pc = "shuffle", !.i = @ - 1])
    /\ UNCHANGED << calls, global_config, prng_state, installed_vars >>

\* perm[256 + i] = perm[i]; i++
RebuildDuplicate ==
    /\ rebuilding.pc = "duplicate"
    /\ perm' = Duplicate(perm, rebuilding.i, rebuilding.i)
    /\ Rebuilds(IF rebuilding.i = 255
                THEN [rebuilding EXCEPT !.pc = "install"]
                ELSE [rebuilding EXCEPT !.i = @ + 1])
    /\ UNCHANGED << calls, global_config, prng_state, installed_vars >>

\* lines 262..277: the counters, the cache, the switches and initialized = 1
RebuildInstall ==
    /\ rebuilding.pc = "install"
    /\ Becomes(Installed(Engine, global_config, [perm |-> perm, st |-> prng_state]))
    /\ Rebuilds(Idle)
    /\ UNCHANGED calls

RebuildNext ==
    \/ RebuildBegin
    \/ RebuildFill
    \/ RebuildDraw
    \/ RebuildSwap
    \/ RebuildDuplicate
    \/ RebuildInstall
    \/ Noise1d
    \/ Noise2d
    \/ Noise3d
    \/ Noise4d
    \/ Return

RebuildSpec == RebuildInit /\ [][RebuildNext]_vars

(***************************************************************************)
(* The properties checked.  A property of a call is stated of the state    *)
(* the call leaves (call, ret and written hold what the caller sees) or of *)
(* the step that makes the call.                                           *)
(***************************************************************************)

\* the table p is well formed: perm[0..255] is a bijection on 0..255 and
\* perm[256 + i] = perm[i]
ValidPerm(p) ==
    /\ { p[i] : i \in 0..255 } = 0..255
    /\ \A i \in 0..255 : p[256 + i] = p[i]

\* the call returned is an initialisation that succeeded
InitReturned ==
    \/ call.op = "simplex_noise_init"
    \/ call.op = "simplex_noise_init_advanced" /\ ret = 0

\* the call returned is a successful simplex_noise_init_advanced
InitAdvancedReturned == call.op = "simplex_noise_init_advanced" /\ ret = 0

\* the configuration that call was passed
ConfigPassed == call.args[1][1]

\* C1: after simplex_noise_init, or simplex_noise_init_advanced returning 0,
\* whatever the seed and the selector passed (the four algorithms,
\* SIMPLEX_PRG_CUSTOM, SIMPLEX_PRG_COUNT), perm[0..255] is a bijection on
\* 0..255 and perm[256 + i] = perm[i] for every i of 0..255.
C1_PermutationWellFormed == InitReturned => ValidPerm(perm)

\* an initialisation with an unrecognised selector has returned 0
C1_Witness ==
    /\ InitAdvancedReturned
    /\ ConfigPassed.prng_type = SIMPLEX_PRG_COUNT
    /\ perm # ZeroPerm

\* C2: after simplex_noise_init_advanced returning 0 for a nonzero seed s and
\* a selector a, perm[] is the table that the same call builds in a freshly
\* loaded program, whatever calls were made before it.
C2_InitHistoryIndependent ==
    (InitAdvancedReturned /\ ConfigPassed.seed # W32(0))
        => perm = FreshBuilds[<< ConfigPassed.prng_type, ConfigPassed.seed >>].perm

\* such an initialisation has returned after an earlier configuring call,
\* which left the PCG generator's state elsewhere than a fresh program has it
C2_Witness ==
    /\ InitAdvancedReturned
    /\ ConfigPassed.seed # W32(0)
    /\ ConfigPassed.prng_type = SIMPLEX_PRG_LINEAR_CONGRUENTIAL
    /\ calls = 2
    /\ prng_state.pcg_state # ZeroPrng.pcg_state

\* the functions that sample
KernelOps == { "simplex_noise_1d", "simplex_noise_2d", "simplex_noise_3d", "simplex_noise_4d" }

VariantOps ==
    { "simplex_ridged_1d", "simplex_ridged_2d", "simplex_ridged_3d",
      "simplex_billowy_1d", "simplex_billowy_2d", "simplex_billowy_3d",
      "simplex_domain_warp_2d" }

OctaveOps ==
    { "simplex_fbm_2d", "simplex_fbm_3d", "simplex_hybrid_multifractal_2d",
      "simplex_fractal_2d", "simplex_fractal_3d" }

ArrayOps == { "simplex_noise_array_2d", "simplex_noise_array_3d" }

\* the octave count passed to the call c of a function of OctaveOps
OctavesPassed(c) ==
    IF c.op \in { "simplex_fbm_3d", "simplex_fractal_3d" } THEN c.args[4] ELSE c.args[3]

\* the call c, returning r, is a sampling call: a kernel, a composer or an
\* array fill that succeeds
IsSampling(c, r) ==
    \/ c.op \in KernelOps \cup VariantOps \cup OctaveOps
    \/ c.op \in ArrayOps /\ r = 0

\* the call c, returning r, calls a kernel at least once
CallsKernel(c, r) ==
    \/ c.op \in KernelOps \cup VariantOps
    \/ c.op \in OctaveOps /\ OctavesPassed(c) >= 1
    \/ c.op \in ArrayOps /\ r = 0

\* the configurations the default initialisation may record: the default
\* one with the seed read from the clock
LazyConfigs == { Seeded(simplex_get_default_config, now) : now \in TimeValues }

\* the step on an uninitialised engine ends with the default initialisation done
LazilyInitialised ==
    /\ initialized' = 1
    /\ global_config' \in LazyConfigs
    /\ global_config'.prng_type = SIMPLEX_PRG_PCG
    /\ ValidPerm(perm')

\* C3 (as amended): a sampling call that calls a kernel at least once (a
\* kernel, ridged, billowy, domain warp, a composer passed octaves >= 1, an
\* array fill that succeeds), made while initialized = 0, returns with the
\* default initialisation done: initialized = 1, global_config the default
\* configuration (PCG) with the seed read from the clock, perm[] well
\* formed.  Made while initialized = 1 it leaves the whole engine as it was.
C3_LazyInit ==
    [][(call = NoCall /\ CallsKernel(call', ret'))
           => IF initialized = 0 THEN LazilyInitialised ELSE UNCHANGED engine_vars]_vars

\* a composer passed one octave or more has returned in a run that made no
\* configuring call, and left the engine initialised
C3_Witness ==
    /\ call.op = "simplex_fbm_2d"
    /\ OctavesPassed(call) >= 1
    /\ calls = 0
    /\ initialized = 1

\* C3 as stated: every sampling call (every composer included, whatever the
\* octave count) made while initialized = 0 returns with initialized = 1.
C3_AsStated ==
    [][(call = NoCall /\ initialized = 0 /\ IsSampling(call', ret')) => initialized' = 1]_vars

\* every slot of noise_cache is invalid
CacheInvalid == noise_cache.valid \cap (0..(CACHE_SIZE - 1)) = { }

\* the call, hit and miss counters are zero
CountersZero ==
    /\ function_call_count = 0
    /\ cache_hits = 0
    /\ cache_misses = 0

C6_NullConfigRejected ==
    [][(call'.op = "simplex_noise_init_advanced" /\ call'.args[1] = NULL)
           => (ret' = -1 /\ UNCHANGED engine_vars)]_vars

\* the null pointer has been passed to an initialised engine
C6_Witness ==
    /\ call.op = "simplex_noise_init_advanced"
    /\ call.args[1] = NULL
    /\ ret = -1
    /\ initialized = 1

\* the width, height (and depth) passed to the array fill c, and its buffer
SizePassed(c) ==
    IF c.op = "simplex_noise_array_2d" THEN << c.args[3], c.args[4] >>
    ELSE << c.args[4], c.args[5], c.args[6] >>

BufferPassed(c) == IF c.op = "simplex_noise_array_2d" THEN c.args[6] ELSE c.args[8]

\* the array fill c is passed a null buffer or a size that is not positive
BadArrayArgs(c) ==
    /\ c.op \in ArrayOps
    /\ (BufferPassed(c) = NULL \/ \E k \in DOMAIN SizePassed(c) : SizePassed(c)[k] <= 0)

\* C7: simplex_noise_array_2d and simplex_noise_array_3d passed a null
\* buffer, or a width, height or depth <= 0, return -1, write no cell of the
\* buffer and leave the whole engine as it was (initialized = 0 stays 0).
C7_BadArrayArgsRejected ==
    [][BadArrayArgs(call')
           => (ret' = -1 /\ written' = << >> /\ UNCHANGED engine_vars)]_vars

\* an array fill passed a buffer and a width of 0 has returned -1 on an
\* engine never initialised
C7_Witness ==
    /\ call.op = "simplex_noise_array_2d"
    /\ BufferPassed(call) # NULL
    /\ SizePassed(call)[1] = 0
    /\ ret = -1
    /\ initialized = 0

\* the cells written, as a set of << subscript, value >>
Cells == { written[k] : k \in DOMAIN written }

\* the n cells 0..n-1 were written once each, and no other
WrittenOnce(n) ==
    /\ Len(written) = n
    /\ { written[k][1] : k \in DOMAIN written } = 0..(n - 1)

\* what simplex_noise_2d and simplex_noise_3d return on the engine as it is
Scalar2d(x, y) == simplex_noise_2d(Engine, W32(0), x, y).ret

Scalar3d(x, y, z) == simplex_noise_3d(Engine, W32(0), x, y, z).ret

\* the fill of width x height cells from (x0, y0) wrote what simplex_noise_2d returns
Filled2d(x0, y0, width, height, step) ==
    /\ WrittenOnce(width * height)
    /\ \A i \in 0..(width - 1), j \in 0..(height - 1) :
           << j * width + i, Scalar2d(x0 + i * step, y0 + j * step) >> \in Cells

Filled3d(x0, y0, z0, width, height, depth, step) ==
    /\ WrittenOnce(width * height * depth)
    /\ \A i \in 0..(width - 1), j \in 0..(height - 1), k \in 0..(depth - 1) :
           << (k * height + j) * width + i,
              Scalar3d(x0 + i * step, y0 + j * step, z0 + k * step) >> \in Cells

\* C8: simplex_noise_array_2d returning 0 has written
\* output[j * width + i] = simplex_noise_2d(x0 + i * step, y0 + j * step) for
\* 0 <= i < width, 0 <= j < height, and simplex_noise_array_3d
\* output[(k * height + j) * width + i] =
\* simplex_noise_3d(x0 + i * step, y0 + j * step, z0 + k * step); every
\* subscript of 0 .. width * height (* depth) - 1 is written once and no other.
C8_ArrayEqualsScalar ==
    /\ (call.op = "simplex_noise_array_2d" /\ ret = 0)
           => Filled2d(call.args[1], call.args[2], call.args[3], call.args[4], call.args[5])
    /\ (call.op = "simplex_noise_array_3d" /\ ret = 0)
           => Filled3d(call.args[1], call.args[2], call.args[3], call.args[4], call.args[5],
                       call.args[6], call.args[7])

\* a fill of 1 x 2 x 2 cells has returned 0
C8_Witness ==
    /\ call.op = "simplex_noise_array_3d"
    /\ ret = 0
    /\ SizePassed(call) = << 1, 2, 2 >>
    /\ Len(written) = 4

\* the sampling call c is made on the initialised engine e: what it returns
Value(c, e) ==
    CASE c.op = "simplex_noise_1d" -> simplex_noise_1d(e, W32(0), c.args[1]).ret
      [] c.op = "simplex_noise_2d" -> simplex_noise_2d(e, W32(0), c.args[1], c.args[2]).ret
      [] c.op = "simplex_noise_3d" ->
            simplex_noise_3d(e, W32(0), c.args[1], c.args[2], c.args[3]).ret
      [] c.op = "simplex_noise_4d" ->
            simplex_noise_4d(e, W32(0), c.args[1], c.args[2], c.args[3], c.args[4]).ret
      [] c.op = "simplex_ridged_1d" -> simplex_ridged_1d(e, W32(0), c.args[1]).ret
      [] c.op = "simplex_ridged_2d" -> simplex_ridged_2d(e, W32(0), c.args[1], c.args[2]).ret
      [] c.op = "simplex_ridged_3d" ->
            simplex_ridged_3d(e, W32(0), c.args[1], c.args[2], c.args[3]).ret
      [] c.op = "simplex_billowy_1d" -> simplex_billowy_1d(e, W32(0), c.args[1]).ret
      [] c.op = "simplex_billowy_2d" -> simplex_billowy_2d(e, W32(0), c.args[1], c.args[2]).ret
      [] c.op = "simplex_billowy_3d" ->
            simplex_billowy_3d(e, W32(0), c.args[1], c.args[2], c.args[3]).ret
      [] c.op = "simplex_fbm_2d" ->
            simplex_fbm_2d(e, W32(0), c.args[1], c.args[2], c.args[3], c.args[4],
                           c.args[5]).ret
      [] c.op = "simplex_fbm_3d" ->
            simplex_fbm_3d(e, W32(0), c.args[1], c.args[2], c.args[3], c.args[4], c.args[5],
                           c.args[6]).ret
      [] c.op = "simplex_hybrid_multifractal_2d" ->
            simplex_hybrid_multifractal_2d(e, W32(0), c.args[1], c.args[2], c.args[3],
                                           c.args[4], c.args[5], c.args[6]).ret
      [] c.op = "simplex_domain_warp_2d" ->
            simplex_domain_warp_2d(e, W32(0), c.args[1], c.args[2], c.args[3]).ret
      [] c.op = "simplex_fractal_2d" ->
            simplex_fractal_2d(e, W32(0), c.args[1], c.args[2], c.args[3], c.args[4],
                               c.args[5]).ret
      [] c.op = "simplex_fractal_3d" ->
            simplex_fractal_3d(e, W32(0), c.args[1], c.args[2], c.args[3], c.args[4],
                               c.args[5], c.args[6]).ret

C10_BillowyRidgedIdentities ==
    /\ call.op = "simplex_billowy_1d"
           => ret = fabs(simplex_noise_1d(Engine, W32(0), call.args[1]).ret)
    /\ call.op = "simplex_billowy_2d" => ret = fabs(Scalar2d(call.args[1], call.args[2]))
    /\ call.op = "simplex_billowy_3d"
           => ret = fabs(Scalar3d(call.args[1], call.args[2], call.args[3]))
    /\ call.op = "simplex_ridged_1d"
           => ret = D(1) - fabs(simplex_noise_1d(Engine, W32(0), call.args[1]).ret)
    /\ call.op = "simplex_ridged_2d" => ret = D(1) - fabs(Scalar2d(call.args[1], call.args[2]))
    /\ call.op = "simplex_ridged_3d"
           => ret = D(1) - fabs(Scalar3d(call.args[1], call.args[2], call.args[3]))

\* simplex_ridged_2d has returned at a point where simplex_noise_2d is negative
C10_Witness ==
    /\ call.op = "simplex_ridged_2d"
    /\ Scalar2d(call.args[1], call.args[2]) < 0
    /\ ret = D(1) + Scalar2d(call.args[1], call.args[2])

\* the call c with the function called replaced by op
As(c, op) == [c EXCEPT !.op = op]

\* the step made is one that the call c makes from the same engine, for
\* some reading of the clock: the same engine left, the same value returned
StepOf(c) ==
    \E now \in Clock(initialized = 0) :
        /\ ret' = Value(c, LazyInit(Engine, now))
        /\ Engine' \in { Engine, LazyInit(Engine, now) }

\* C11: simplex_fractal_2d returns what simplex_fbm_2d returns for the same
\* arguments on the same engine, and simplex_fractal_3d what simplex_fbm_3d
\* returns; the two leave the engine the same.
C11_FractalIsFbm ==
    [][/\ (call = NoCall /\ call'.op = "simplex_fractal_2d")
              => (StepOf(As(call', "simplex_fbm_2d")) /\ ret' = Value(As(call', "simplex_fbm_2d"), Engine'))
       /\ (call = NoCall /\ call'.op = "simplex_fractal_3d")
              => (StepOf(As(call', "simplex_fbm_3d")) /\ ret' = Value(As(call', "simplex_fbm_3d"), Engine'))]_vars

\* simplex_fractal_3d has returned a number for two octaves
C11_Witness ==
    /\ call.op = "simplex_fractal_3d"
    /\ OctavesPassed(call) = 2
    /\ ret # 0

\* C12: simplex_domain_warp_2d(x, y, 0) returns what simplex_noise_2d(x, y)
\* returns on the same engine.
C12_ZeroWarpIsKernel ==
    (call.op = "simplex_domain_warp_2d" /\ call.args[3] = 0)
        => ret = Scalar2d(call.args[1], call.args[2])

\* the warp of strength 0 has returned at a point where the warp of
\* strength WarpStrength returns another value than the kernel
C12_Witness ==
    /\ call.op = "simplex_domain_warp_2d"
    /\ call.args[3] = 0
    /\ Value([call EXCEPT !.args[3] = WarpStrength], Engine) # ret

\* C13: simplex_noise_init_advanced passed a selector that is none of the
\* four algorithms (SIMPLEX_PRG_CUSTOM or larger) and a nonzero seed returns
\* 0 and builds the table that SIMPLEX_PRG_LINEAR_CONGRUENTIAL builds for
\* that seed.
C13_UnknownSelectorIsLcg ==
    (/\ call.op = "simplex_noise_init_advanced"
     /\ call.args[1] # NULL
     /\ ConfigPassed.prng_type >= SIMPLEX_PRG_CUSTOM
     /\ ConfigPassed.seed # W32(0))
        => /\ ret = 0
           /\ perm = FreshBuilds[<< SIMPLEX_PRG_LINEAR_CONGRUENTIAL, ConfigPassed.seed >>].perm
           /\ prng_state.lcg_state =
                  FreshBuilds[<< SIMPLEX_PRG_LINEAR_CONGRUENTIAL, ConfigPassed.seed >>].to[1]

\* SIMPLEX_PRG_CUSTOM has been passed to an engine that another generator
\* had initialised
C13_Witness ==
    /\ InitAdvancedReturned
    /\ ConfigPassed.prng_type = SIMPLEX_PRG_CUSTOM
    /\ ConfigPassed.seed # W32(0)
    /\ prng_state.pcg_state # ZeroPrng.pcg_state
    /\ ValidPerm(perm)

\* what a call leaves: the engine, the value returned, the cells written
Returned(res) == [e |-> res.e, ret |-> res.ret, out |-> << >>]

ReturnedVoid(e) == [e |-> e, ret |-> NoValue, out |-> << >>]

\* the call c made on the engine e, time(NULL) returning now
Run(c, e, now) ==
    CASE c.op = "simplex_noise_init_advanced" ->
            Returned(simplex_noise_init_advanced(e, c.args[1], now))
      [] c.op = "simplex_noise_init" -> ReturnedVoid(simplex_noise_init(e, c.args[1], now))
      [] c.op = "simplex_set_prng" -> Returned(simplex_set_prng(e, c.args[1]))
      [] c.op = "simplex_set_caching" -> Returned(simplex_set_caching(e, c.args[1]))
      [] c.op = "simplex_set_profiling" -> Returned(simplex_set_profiling(e, c.args[1]))
      [] c.op = "simplex_reset_performance_stats" ->
            ReturnedVoid(simplex_reset_performance_stats(e))
      [] c.op = "simplex_cleanup" -> ReturnedVoid(simplex_cleanup(e))
      [] c.op = "simplex_get_function_call_count" -> Returned(simplex_get_function_call_count(e))
      [] c.op = "simplex_get_cache_hits" -> Returned(simplex_get_cache_hits(e))
      [] c.op = "simplex_get_cache_misses" -> Returned(simplex_get_cache_misses(e))
      [] c.op = "simplex_noise_1d" -> Returned(simplex_noise_1d(e, now, c.args[1]))
      [] c.op = "simplex_noise_2d" -> Returned(simplex_noise_2d(e, now, c.args[1], c.args[2]))
      [] c.op = "simplex_noise_3d" ->
            Returned(simplex_noise_3d(e, now, c.args[1], c.args[2], c.args[3]))
      [] c.op = "simplex_noise_4d" ->
            Returned(simplex_noise_4d(e, now, c.args[1], c.args[2], c.args[3], c.args[4]))
      [] c.op = "simplex_ridged_1d" -> Returned(simplex_ridged_1d(e, now, c.args[1]))
      [] c.op = "simplex_ridged_2d" -> Returned(simplex_ridged_2d(e, now, c.args[1], c.args[2]))
      [] c.op = "simplex_ridged_3d" ->
            Returned(simplex_ridged_3d(e, now, c.args[1], c.args[2], c.args[3]))
      [] c.op = "simplex_billowy_1d" -> Returned(simplex_billowy_1d(e, now, c.args[1]))
      [] c.op = "simplex_billowy_2d" ->
            Returned(simplex_billowy_2d(e, now, c.args[1], c.args[2]))
      [] c.op = "simplex_billowy_3d" ->
            Returned(simplex_billowy_3d(e, now, c.args[1], c.args[2], c.args[3]))
      [] c.op = "simplex_fbm_2d" ->
            Returned(simplex_fbm_2d(e, now, c.args[1], c.args[2], c.args[3], c.args[4],
                                    c.args[5]))
      [] c.op = "simplex_fbm_3d" ->
            Returned(simplex_fbm_3d(e, now, c.args[1], c.args[2], c.args[3], c.args[4],
                                    c.args[5], c.args[6]))
      [] c.op = "simplex_hybrid_multifractal_2d" ->
            Returned(simplex_hybrid_multifractal_2d(e, now, c.args[1], c.args[2], c.args[3],
                                                    c.args[4], c.args[5], c.args[6]))
      [] c.op = "simplex_domain_warp_2d" ->
            Returned(simplex_domain_warp_2d(e, now, c.args[1], c.args[2], c.args[3]))
      [] c.op = "simplex_fractal_2d" ->
            Returned(simplex_fractal_2d(e, now, c.args[1], c.args[2], c.args[3], c.args[4],
                                        c.args[5]))
      [] c.op = "simplex_fractal_3d" ->
            Returned(simplex_fractal_3d(e, now, c.args[1], c.args[2], c.args[3], c.args[4],
                                        c.args[5], c.args[6]))
      [] c.op = "simplex_noise_array_2d" ->
            simplex_noise_array_2d(e, now, c.args[1], c.args[2], c.args[3], c.args[4],
                                   c.args[5], c.args[6])
      [] c.op = "simplex_noise_array_3d" ->
            simplex_noise_array_3d(e, now, c.args[1], c.args[2], c.args[3], c.args[4],
                                   c.args[5], c.args[6], c.args[7], c.args[8])

\* the call c made on the engine e reads the clock (or, for a composer or
\* an array fill, may read it)
ReadsClock(c, e) ==
    \/ c.op = "simplex_noise_init_advanced" /\ c.args[1] # NULL /\ c.args[1][1].seed = W32(0)
    \/ c.op = "simplex_noise_init" /\ c.args[1] = W32(0)
    \/ c.op \in KernelOps \cup VariantOps \cup OctaveOps \cup ArrayOps /\ e.initialized = 0

\* the engine e but for what the caching switch sets: cache_enabled,
\* global_config.enable_caching and the slots
CachingAside(e) ==
    [e EXCEPT !.cache_enabled = 0, !.global_config.enable_caching = 0, !.noise_cache = ZeroCache]

\* the engines that differ from e in the caching switch only
CachingVariants(e) ==
    { [e EXCEPT !.cache_enabled = a, !.global_config.enable_caching = b] : a, b \in 0..1 }

\* the calls that differ from c in the caching switch passed only
ArgVariants(c) ==
    CASE c.op = "simplex_set_caching" -> { [c EXCEPT !.args[1] = v] : v \in 0..1 }
      [] c.op = "simplex_noise_init_advanced" /\ c.args[1] # NULL ->
            { [c EXCEPT !.args[1][1].enable_caching = v] : v \in 0..1 }
      [] OTHER -> { c }

\* the call c2 made on the engine e2 for some reading of the clock returns
\* what the step returned, writes what it wrote and leaves the engine it
\* left, but for the caching switch
SameButCaching(c2, e2) ==
    \E now \in Clock(ReadsClock(c2, e2)) :
        LET ran == Run(c2, e2, now)
        IN  /\ ran.ret = ret'
            /\ ran.out = written'
            /\ CachingAside(ran.e) = CachingAside(Engine')

\* C14: the caching switch has no observable effect.  Whatever call is
\* made, the same call made with the switch set otherwise (in the engine:
\* cache_enabled, global_config.enable_caching; or in the arguments:
\* simplex_set_caching's enable, the configuration's enable_caching) returns
\* the same value, writes the same cells and leaves the same engine but for
\* the switch, so two runs that differ in the caching choices only return the
\* same values call by call; and cache_hits and cache_misses stay 0.
C14_CachingInert ==
    [][(call = NoCall /\ call' # NoCall)
           => /\ cache_hits' = 0
              /\ cache_misses' = 0
              /\ \A e2 \in CachingVariants(Engine), c2 \in ArgVariants(call') :
                     (e2 # Engine \/ c2 # call') => SameButCaching(c2, e2)]_vars

\* a kernel has returned on an engine initialised with caching on and
\* switched off since
C14_Witness ==
    /\ call.op = "simplex_noise_3d"
    /\ calls = 2
    /\ initialized = 1
    /\ cache_enabled = 0
    /\ global_config.enable_caching = 0
    /\ global_config.seed = SomeSeed
    /\ global_config.prng_type = SIMPLEX_PRG_PCG

\* the margin allowed over the range
Epsilon == ONE \div 100

InRange(v, margin) == -(ONE + margin) <= v /\ v <= ONE + margin

\* C15: on an initialised engine simplex_noise_2d, simplex_noise_3d and
\* simplex_noise_4d return a value within [-1, 1], give or take Epsilon
C15_KernelRange ==
    (call.op \in { "simplex_noise_2d", "simplex_noise_3d", "simplex_noise_4d" }
        /\ initialized = 1)
        => InRange(ret, Epsilon)

\* C16: simplex_noise_1d returns a value within [-1, 1]
C16_Noise1dRange ==
    (call.op = "simplex_noise_1d" /\ initialized = 1) => InRange(ret, 0)

\* C18: with profiling on, a kernel call on an initialised engine adds one
\* to the count simplex_get_function_call_count returns, so that after n
\* kernel calls following an initialisation or a reset the count is n
C18_CallCountCounts ==
    [][(call = NoCall /\ call'.op \in KernelOps /\ initialized = 1 /\ profiling_enabled = 1)
           => simplex_get_function_call_count(Engine').ret
                  = simplex_get_function_call_count(Engine).ret + 1]_vars

\* b to the power k, by k multiplications
RECURSIVE Power(_, _)
Power(b, k) == IF k = 0 THEN D(1) ELSE FMul(Power(b, k - 1), b)

\* f[0] + ... + f[n - 1]
RECURSIVE SumTo(_, _)
SumTo(f, n) == IF n = 0 THEN 0 ELSE SumTo(f, n - 1) + f[n - 1]

PersistencePassed(c) == c.args[IF c.op \in { "simplex_fbm_3d", "simplex_fractal_3d" } THEN 5 ELSE 4]

LacunarityPassed(c) == c.args[IF c.op \in { "simplex_fbm_3d", "simplex_fractal_3d" } THEN 6 ELSE 5]

\* the kernel samples a composer call c takes: octave k samples the kernel
\* at the point scaled by lacunarity to the power k
KernelSamples(c) ==
    [k \in 0..(OctavesPassed(c) - 1) |->
        IF c.op \in { "simplex_fbm_3d", "simplex_fractal_3d" }
        THEN Scalar3d(FMul(c.args[1], Power(LacunarityPassed(c), k)),
                      FMul(c.args[2], Power(LacunarityPassed(c), k)),
                      FMul(c.args[3], Power(LacunarityPassed(c), k)))
        ELSE Scalar2d(FMul(c.args[1], Power(LacunarityPassed(c), k)),
                      FMul(c.args[2], Power(LacunarityPassed(c), k)))]

\* the sum of the samples weighted by persistence to the power k, and the
\* sum of the weights
WeightedSum(c) ==
    SumTo([k \in 0..(OctavesPassed(c) - 1) |->
              FMul(KernelSamples(c)[k], Power(PersistencePassed(c), k))],
          OctavesPassed(c))

AmplitudeSum(c) ==
    SumTo([k \in 0..(OctavesPassed(c) - 1) |-> Power(PersistencePassed(c), k)],
          OctavesPassed(c))

\* C17: for octaves >= 1 and persistence >= 0, simplex_fbm_2d, simplex_fbm_3d,
\* simplex_fractal_2d and simplex_fractal_3d return the sum of the kernel
\* samples weighted by persistence^k, divided by the sum of the weights; so
\* the value is within [-1, 1] whenever every sample is
C17_NormalisedByAmplitudeSum ==
    (call.op \in { "simplex_fbm_2d", "simplex_fbm_3d", "simplex_fractal_2d",
                   "simplex_fractal_3d" }
        /\ OctavesPassed(call) >= 1
        /\ PersistencePassed(call) >= 0)
        => /\ ret = FDiv(WeightedSum(call), AmplitudeSum(call))
           /\ (\A k \in DOMAIN KernelSamples(call) : InRange(KernelSamples(call)[k], 0))
                  => InRange(ret, 0)

\* an fBm of two octaves has returned a value other than 0
C17_Witness ==
    /\ call.op = "simplex_fbm_3d"
    /\ OctavesPassed(call) = MaxOctaves
    /\ initialized = 1
    /\ ret # 0
    /\ KernelSamples(call)[1] # 0

\* the keys each accessor recognises, as its chain of strcmp lists them
DoubleAccessorKeys ==
    { "persistence", "lacunarity", "frequency", "amplitude", "offset", "scale",
      "cache_size_mb", "memory_limit_mb" }

IntAccessorKeys ==
    { "prng_type", "noise_variant", "interp_type", "precision", "seed", "enable_simd",
      "enable_caching", "enable_profiling", "octaves", "verbose_mode", "debug_mode",
      "auto_save", "validate_inputs", "max_threads", "chunk_size" }

StringAccessorKeys == DoubleAccessorKeys \cup IntAccessorKeys \cup { "config_file", "output_file" }

Recognised(op) ==
    CASE op \in { "simplex_get_config_double", "simplex_set_config_double" } -> DoubleAccessorKeys
      [] op \in { "simplex_get_config_int", "simplex_set_config_int" } -> IntAccessorKeys
      [] op \in { "simplex_get_config_string", "simplex_set_config_string" } -> StringAccessorKeys
      [] OTHER -> { }

AccessorOps ==
    { "simplex_get_config_string", "simplex_set_config_string", "simplex_get_config_double",
      "simplex_set_config_double", "simplex_get_config_int", "simplex_set_config_int" }

\* C19: an accessor given a key it does not recognise (one of another type
\* included) returns -1, leaves the caller's object as it is and writes no
\* output
C19_UnknownKeyRejected ==
    [][(/\ call = NoCall
        /\ call'.op \in AccessorOps
        /\ call'.args[2] # NULL
        /\ call'.args[2][1] \notin Recognised(call'.op))
           => /\ ret' = -1
              /\ written' = << >>
              /\ caller_config' = caller_config]_vars

\* a double accessor has been given "octaves" for an object, and a string
\* setter a key that no field has
C19_Witness ==
    \/ /\ call.op = "simplex_set_config_double"
       /\ call.args[1] # NULL
       /\ call.args[2] = Ref("octaves")
       /\ ret = -1
    \/ /\ call.op = "simplex_set_config_string"
       /\ call.args[1] # NULL
       /\ call.args[2] = Ref("no_such_key")
       /\ call.args[3] # NULL
       /\ ret = -1

\* C20: a configuration saved as INI and loaded back has the seed and the
\* octaves it was saved with: after a simplex_load_config that returns 0,
\* of a file that a simplex_save_config returning 0 wrote, the object loaded
\* has the seed and the octaves of the object saved
C20_IniRoundTrip ==
    (call.op = "simplex_load_config" /\ ret = 0)
        => /\ saved[call.args[1][1]] # NULL
           /\ loaded.seed = saved[call.args[1][1]][1].seed
           /\ loaded.octaves = saved[call.args[1][1]][1].octaves


(***************************************************************************)
(* The lattice steps                                                       *)
(***************************************************************************)

\* the axes a corner steps along, of its steps o
Stepped(o) == { a \in DOMAIN o : o[a] = 1 }

\* the axes of the offsets offs whose offset is maximal
Largest(offs) == { a \in DOMAIN offs : \A b \in DOMAIN offs : offs[a] >= offs[b] }

\* the axis a has the strictly smallest of the offsets offs
StrictlySmallest(offs, a) == \A b \in DOMAIN offs \ { a } : offs[a] < offs[b]

\* the offsets offs are strictly ordered
StrictOrdering(offs) == \A a, b \in DOMAIN offs : a # b => offs[a] # offs[b]

\* the row ranks the axes by their offsets
Ranks(row, offs) ==
    /\ { row[a] : a \in DOMAIN row } = 0..3
    /\ \A a, b \in DOMAIN offs : offs[a] > offs[b] => row[a] > row[b]

\* C21: in simplex_noise_4d, for a strict ordering of the four unskewed
\* offsets the row simplex[c] is a permutation of 0..3 that ranks the axes
\* by offset, corner 1 steps along exactly the axis of the largest offset,
\* corner 2 along exactly two axes and corner 3 along exactly three, each
\* set of stepped axes containing the one before
C21_SimplexTableRanks ==
    (call.op = "Order4d" /\ StrictOrdering(call.args))
        => /\ Ranks(ret.row, call.args)
           /\ Stepped(ret.steps[1]) = Largest(call.args)
           /\ \A n \in 1..3 : Cardinality(Stepped(ret.steps[n])) = n
           /\ Stepped(ret.steps[1]) \subseteq Stepped(ret.steps[2])
           /\ Stepped(ret.steps[2]) \subseteq Stepped(ret.steps[3])

\* the first and the second stepped corner of the ordering o of simplex_noise_3d
First3d(o) == << o[1], o[2], o[3] >>

Second3d(o) == << o[4], o[5], o[6] >>

\* C22: in simplex_noise_2d and simplex_noise_3d, for every combination of
\* offsets, ties included, the second corner steps along exactly one axis,
\* whose offset is maximal, and in 3D the third corner steps along exactly
\* two axes, that axis and one more whose offset is not strictly the smallest
C22_CornerOrdering ==
    /\ call.op = "Order2d"
           => /\ Cardinality(Stepped(ret)) = 1
              /\ Stepped(ret) \subseteq Largest(call.args)
    /\ call.op = "Order3d"
           => /\ Cardinality(Stepped(First3d(ret))) = 1
              /\ Stepped(First3d(ret)) \subseteq Largest(call.args)
              /\ Cardinality(Stepped(Second3d(ret))) = 2
              /\ Stepped(First3d(ret)) \subseteq Stepped(Second3d(ret))
              /\ \A a \in Stepped(Second3d(ret)) \ Stepped(First3d(ret)) :
                     ~StrictlySmallest(call.args, a)

\* the orderings have been applied to offsets with a tie for the largest:
\* in 3D, x0 = y0 < z0 is ordered Z, then X and Z
C22_Witness ==
    /\ call.op = "Order3d"
    /\ call.args[1] = call.args[2]
    /\ call.args[2] < call.args[3]
    /\ ret = << 0, 0, 1, 1, 0, 1 >>

\* C23: for every value, zero, negative values and exact negative integers
\* included, fast_floor(v) is the greatest integer less than or equal to v
C23_FastFloorIsFloor ==
    call.op = "fast_floor" => (D(ret) <= call.args[1] /\ call.args[1] < D(ret + 1))


(***************************************************************************)
(* The switches an initialisation records                                  *)
(***************************************************************************)

\* C24: after a simplex_noise_init_advanced that returns 0, the engine's
\* caching switch is the enable_caching field of the configuration passed
\* and its profiling switch the enable_profiling field, whatever the calls
\* made before
C24_InitRecordsSwitches ==
    InitAdvancedReturned
        => /\ cache_enabled = ConfigPassed.enable_caching
           /\ profiling_enabled = ConfigPassed.enable_profiling


(***************************************************************************)
(* The hybrid multifractal                                                 *)
(***************************************************************************)

\* the product of the first n octaves of the call c: octave k multiplies by
\* (offset + |sample k|) * persistence^k
RECURSIVE HybridProduct(_, _)
HybridProduct(c, n) ==
    IF n <= 0 THEN D(1)
    ELSE FMul(HybridProduct(c, n - 1),
              FMul(c.args[6] + fabs(KernelSamples(c)[n - 1]), Power(PersistencePassed(c), n - 1)))

\* C27: simplex_hybrid_multifractal_2d returns the product, starting from 1,
\* over the octaves k of (offset + |noise_2d(p * lacunarity^k)|) * persistence^k,
\* not divided by anything: 1 for octaves <= 0 and offset + |noise_2d(p)|
\* for octaves = 1
C27_HybridIsProduct ==
    call.op = "simplex_hybrid_multifractal_2d"
        => /\ ret = HybridProduct(call, OctavesPassed(call))
           /\ OctavesPassed(call) <= 0 => ret = D(1)
           /\ OctavesPassed(call) = 1
                  => ret = call.args[6] + fabs(Scalar2d(call.args[1], call.args[2]))

\* a hybrid multifractal of two octaves has returned a value that the second
\* octave changed
C27_Witness ==
    /\ call.op = "simplex_hybrid_multifractal_2d"
    /\ OctavesPassed(call) = MaxOctaves
    /\ ret # HybridProduct(call, 1)
    /\ ret # D(1)


(***************************************************************************)
(* The frame of simplex_set_prng                                           *)
(***************************************************************************)

\* sampling calls, one of each kernel and one composer, at the points sampled
SampleCalls ==
    UNION { { [op |-> "simplex_noise_1d", args |-> << p[1] >>],
              [op |-> "simplex_noise_2d", args |-> << p[1], p[2] >>],
              [op |-> "simplex_noise_3d", args |-> << p[1], p[2], p[3] >>],
              [op |-> "simplex_noise_4d", args |-> << p[1], p[2], p[3], p[4] >>],
              [op |-> "simplex_fbm_2d",
               args |-> << p[1], p[2], MaxOctaves, Persistence, Lacunarity >>] } :
            p \in Points }

\* every sampling call returns from the engine e2 what it returns from e1
SamplesAlike(e1, e2) ==
    \A c \in SampleCalls, now \in TimeValues : Run(c, e2, now).ret = Run(c, e1, now).ret

\* the step is a call of simplex_set_prng
SetsPrng == call = NoCall /\ call'.op = "simplex_set_prng"

\* the step is a sampling call that finds the engine uninitialised
SamplesLazily == call = NoCall /\ initialized = 0 /\ CallsKernel(call', ret')

\* C29: simplex_set_prng with a selector below SIMPLEX_PRG_COUNT returns 0,
\* records the selector and reseeds that generator from the recorded seed,
\* and leaves the table and the initialized flag (and whatever else the
\* samplers read) as they were, so that every sampling call returns the
\* same before and after; with a selector at or above SIMPLEX_PRG_COUNT it
\* returns -1 and changes nothing; and the lazy initialisation selects PCG
\* and builds the table of a fresh program, whatever selector was set before
C29_SetPrngFrame ==
    [][/\ (SetsPrng /\ call'.args[1] < SIMPLEX_PRG_COUNT)
              => /\ ret' = 0
                 /\ global_config' = [global_config EXCEPT !.prng_type = call'.args[1]]
                 /\ prng_state' = prng_init(prng_state, call'.args[1], global_config.seed)
                 /\ perm' = perm
                 /\ initialized' = initialized
                 /\ UNCHANGED << perf_stats, noise_cache, cache_enabled, cache_hits,
                                 cache_misses, profiling_enabled, function_call_count >>
                 /\ SamplesAlike(Engine, Engine')
       /\ (SetsPrng /\ call'.args[1] >= SIMPLEX_PRG_COUNT)
              => (ret' = -1 /\ UNCHANGED engine_vars)
       /\ SamplesLazily
              => /\ global_config'.prng_type = SIMPLEX_PRG_PCG
                 /\ \E now \in TimeValues :
                        perm' = FreshBuilds[<< SIMPLEX_PRG_PCG, now >>].perm]_vars

\* the Mersenne twister was selected before any initialisation, and a
\* kernel called next has initialised the engine with PCG
C29_Witness ==
    /\ call.op \in KernelOps
    /\ calls = 1
    /\ initialized = 1
    /\ global_config.prng_type = SIMPLEX_PRG_PCG
    /\ prng_state.mersenne_state # ZeroPrng.mersenne_state


(***************************************************************************)
(* The cache                                                               *)
(***************************************************************************)

\* the point a call of cache_lookup or cache_store is made with
PointPassed(c) == SubSeq(c.args, 1, 4)

\* the point the slot s holds
PointHeld(s) == << s.x, s.y, s.z, s.w >>

\* the subscripts of noise_cache[]
Slots == 0..(CACHE_SIZE - 1)

\* the step is a call of op made with caching enabled
CacheCall(op) == call = NoCall /\ cache_enabled = 1 /\ call'.op = op

\* the step counts a hit, and the step counts a miss
CountsHit == cache_hits' = cache_hits + 1 /\ cache_misses' = cache_misses

CountsMiss == cache_misses' = cache_misses + 1 /\ cache_hits' = cache_hits

\* the slot of the point q
SlotOf(q) == cache_hash(q[1], q[2], q[3], q[4])

\* ints that (int)(v * 1000) may yield for coordinates far from the origin:
\* the ends of the range of int and values about a multiple of CACHE_SIZE
FarThousandths == { -2147483647 - 1, -2147483647, -1025, -1024, -1, 2147483647 }

\* the hash is a subscript of noise_cache[] for those too
SlotsWithin == \A a, b \in FarThousandths : cache_slot(a, b, 0, 500) \in Slots

\* C26: with caching enabled, cache_lookup counts a hit and returns a stored
\* result only when the slot of the point is valid and holds that very
\* point, and otherwise counts a miss and returns 0: a point that hashes to
\* the slot of a different stored point misses.  cache_store overwrites the
\* slot of its point and no other.  The slot index is within [0, 1024),
\* for negative coordinates too.
C26_CacheLookupSound ==
    [][/\ CacheCall("cache_lookup")
              => /\ SlotOf(PointPassed(call')) \in Slots
                 /\ SlotsWithin
                 /\ CountsHit \/ CountsMiss
                 /\ CountsHit
                        => /\ SlotOf(PointPassed(call')) \in noise_cache.valid
                           /\ PointHeld(noise_cache.slot[SlotOf(PointPassed(call'))])
                                  = PointPassed(call')
                           /\ ret' = noise_cache.slot[SlotOf(PointPassed(call'))].result
                 /\ CountsMiss => ret' = 0
                 /\ noise_cache' = noise_cache
       /\ CacheCall("cache_store")
              => /\ SlotOf(PointPassed(call')) \in Slots
                 /\ SlotOf(PointPassed(call')) \in noise_cache'.valid
                 /\ PointHeld(noise_cache'.slot[SlotOf(PointPassed(call'))]) = PointPassed(call')
                 /\ noise_cache'.slot[SlotOf(PointPassed(call'))].result = call'.args[5]
                 /\ \A h \in noise_cache.valid \ { SlotOf(PointPassed(call')) } :
                        h \in noise_cache'.valid /\ noise_cache'.slot[h] = noise_cache.slot[h]
                 /\ noise_cache'.valid \subseteq Slots
                 /\ UNCHANGED << cache_hits, cache_misses >>]_vars

\* a lookup has missed at a point whose slot is valid and holds another point
C26_Witness ==
    /\ call.op = "cache_lookup"
    /\ cache_enabled = 1
    /\ SlotOf(PointPassed(call)) \in noise_cache.valid
    /\ PointHeld(noise_cache.slot[SlotOf(PointPassed(call))]) # PointPassed(call)
    /\ cache_misses = 1
    /\ cache_hits = 1
    /\ ret = 0


(***************************************************************************)
(* The rebuild in progress                                                 *)
(***************************************************************************)

\* the engine with the table p
WithTable(p) == [Engine EXCEPT !.perm = p]

\* the table while the identity fill is at i: the identity below i, and
\* above it the table as it was
HalfFilled(r) == [s \in 0..511 |-> IF s < r.i THEN s ELSE r.before[s]]

\* the table while the duplication is at i: the first half built, copied
\* below 256 + i, and above it the second half as it was
HalfDuplicated(r) ==
    [s \in 0..511 |-> IF s < 256 + r.i THEN r.after[s % 256] ELSE r.before[s]]

\* C25: nothing holds a sampler back while the table is rebuilt: a kernel
\* called between two statements of simplex_noise_init_advanced is computed
\* from the table as those statements have left it, which is, during the
\* identity fill, the identity up to i and the old table above, and during
\* the duplication, the new first half and the old second half above
\* 256 + i; so there is an interleaving in which the table read is neither
\* the table before nor the table after (the witness)
C25_SamplerReadsTableInProgress ==
    /\ rebuilding.pc = "fill" => perm = HalfFilled(rebuilding)
    /\ rebuilding.pc = "duplicate" => perm = HalfDuplicated(rebuilding)
    /\ rebuilding.pc = "install" => perm = rebuilding.after
    /\ call.op \in KernelOps => ret = Value(call, Engine)

\* a kernel has been called during the duplication, when the table is
\* neither the one before nor the one after and its halves disagree, and
\* has returned a value that neither of the two tables gives
C25_Witness ==
    /\ call.op = "simplex_noise_2d"
    /\ rebuilding.pc = "duplicate"
    /\ perm # rebuilding.before
    /\ perm # rebuilding.after
    /\ ~ValidPerm(perm)
    /\ ret # Value(call, WithTable(rebuilding.before))
    /\ ret # Value(call, WithTable(rebuilding.after))

(***************************************************************************)
(* The subscripts of the tables                                            *)
(***************************************************************************)

\* perm[s], and 0 for a subscript out of bounds (which the property excludes)
Read(p, s) == IF s \in DOMAIN p THEN p[s] ELSE 0

\* the subscripts of the nested perm[an + perm[... + perm[a1]]], innermost
\* first, for the addends << a1, ..., an >>
RECURSIVE Subscripts(_, _)
Subscripts(p, adds) ==
    IF Len(adds) = 1 THEN << adds[1] >>
    ELSE LET inner == Subscripts(p, SubSeq(adds, 1, Len(adds) - 1))
         IN  Append(inner, adds[Len(adds)] + Read(p, inner[Len(inner)]))

\* the subscripts are within perm[512], and the subscript perm[...] % m of
\* the gradient table within its m rows
Within512(subs, p, m) ==
    /\ \A n \in 1..Len(subs) : subs[n] \in 0..511
    /\ Rem(Read(p, subs[Len(subs)]), m) \in 0..(m - 1)

InBounds(p, adds, m) == Within512(Subscripts(p, adds), p, m)

\* the lattice indexes a kernel may compute: the ends of the range of int,
\* and -1
LatticeIndexes == { -2147483647 - 1, -1, 2147483647 }

\* i0 + 1 of simplex_noise_1d: undefined when it overflows, whatever int it yields
Successors(i0) ==
    IF i0 = 2147483647 THEN { -2147483647 - 1, -1, 0, 2147483647 } ELSE { i0 + 1 }

\* the steps of the corners of simplex_noise_2d, _3d and _4d
Steps2d == { << 0, 0 >>, << 1, 1 >> } \cup { Order2d(x0, y0) : x0, y0 \in 0..1 }

Steps3d ==
    { << 0, 0, 0 >>, << 1, 1, 1 >> }
    \cup UNION { { First3d(Order3d(x0, y0, z0)), Second3d(Order3d(x0, y0, z0)) } :
                 x0, y0, z0 \in 0..2 }

Steps4dAll ==
    { << 0, 0, 0, 0 >>, << 1, 1, 1, 1 >> }
    \cup UNION { { Order4d(simplex[c])[n] : n \in 1..3 } : c \in DOMAIN simplex }

\* perm[i0 & 0xff] & 7 and perm[i1 & 0xff] & 7
InBounds1d(p, i0) ==
    \A s \in { Low8(i0) } \cup { Low8(i1) : i1 \in Successors(i0) } :
        s \in 0..511 /\ AndB(Read(p, s), 7) \in 0..7

\* perm[ii + i1 + perm[jj + j1]] % 8
InBounds2d(p, i, j) ==
    \A o \in Steps2d : InBounds(p, << Low8(j) + o[2], Low8(i) + o[1] >>, 8)

\* perm[ii + i1 + perm[jj + j1 + perm[kk + k1]]] % 12
InBounds3d(p, i, j, k) ==
    \A o \in Steps3d : InBounds(p, << Low8(k) + o[3], Low8(j) + o[2], Low8(i) + o[1] >>, 12)

\* perm[ii + i1 + perm[jj + j1 + perm[kk + k1 + perm[ll + l1]]]] % 32
InBounds4d(p, i, j, k, l) ==
    \A o \in Steps4dAll :
        InBounds(p, << Low8(l) + o[4], Low8(k) + o[3], Low8(j) + o[2], Low8(i) + o[1] >>, 32)

\* C28: in every state, between any two statements of a rebuild too, every
\* entry of perm[] is in [0, 255], and for every lattice index, negative
\* ones included, every subscript of perm[] that simplex_noise_1d..4d
\* compute is in [0, 511] and every subscript of a gradient table is within
\* the table: [0, 8) in 1D and 2D, [0, 12) in 3D and [0, 32) in 4D
C28_TableAccessInBounds ==
    /\ \A s \in 0..511 : perm[s] \in 0..255
    /\ call = NoCall
           => /\ \A i \in LatticeIndexes : InBounds1d(perm, i)
              /\ \A i, j \in LatticeIndexes : InBounds2d(perm, i, j)
              /\ \A i, j, k \in LatticeIndexes : InBounds3d(perm, i, j, k)
              /\ \A i, j, k, l \in LatticeIndexes : InBounds4d(perm, i, j, k, l)

\* the second thread is in the middle of a swap, the entry perm[i]
\* overwritten and perm[j] not yet: two entries of the first half are equal
C28_Witness ==
    /\ rebuilding.pc = "swap"
    /\ rebuilding.j # rebuilding.i
    /\ perm[rebuilding.i] = perm[rebuilding.j]
    /\ call = NoCall

=============================================================================
